---- MODULE Spec2Model ----
(***************************************************************************)
(* Model of the Cedra TypeScript SDK.  The first and largest part is the   *)
(* transaction-finality wait (src/src/internal/transaction.ts,             *)
(* waitForTransaction); the other operations of the SDK that are modelled  *)
(* each have a variable of their own, which stays Off in the                *)
(* specifications that are not about them.                                 *)
(*                                                                         *)
(* Every invocation of waitForTransaction is a record of its local         *)
(* variables plus its position (pc).  The suspension points of the async   *)
(* function are the positions "fetch0" (first getTransactionByHash),       *)
(* "longpoll" (longWaitForTransaction), "poll" (getTransactionByHash in    *)
(* the loop) and "sleep" (sleep(backoffIntervalMs)); an action runs the    *)
(* code from one suspension point to the next.                             *)
(*                                                                         *)
(* The numbers of the source are IEEE 754 doubles, and timeElapsed,        *)
(* backoffIntervalMs and timeoutSecs are held as such: a mantissa of 53    *)
(* bits and an exponent, every operation rounded to nearest, ties to even. *)
(* Wall-clock differences (Date.now() - startTime) are whole milliseconds. *)
(***************************************************************************)
EXTENDS Integers, Sequences, FiniteSets, TLC

VARIABLES
  calls,    \* the invocations of waitForTransaction
  blk,      \* a getBlockByHeight / getBlockByVersion call
  worker,   \* the batch submission of one sender
  memo,     \* the memoize cache, its callers and the clock
  pend,     \* an isTransactionPending call
  idx,      \* a waitForIndexer call
  acct,     \* a SingleKeyAccount and what was done with it
  bcs,      \* a value, its serialized bytes and what was read back
  escrow    \* the claims Move module: balances, escrows, next number

vars == <<calls, blk, worker, memo, pend, idx, acct, bcs, escrow>>

\* The value of a variable whose operation is not called.
Off == [pc |-> "off"]

notCalls == <<blk, worker, memo, pend, idx, acct, bcs, escrow>>

CallsOff == calls = [i \in {1, 2} |-> Off]

(***************************************************************************)
(* Bounds of the model.                                                    *)
(***************************************************************************)
MaxTimeoutMs == 950
MaxLongPollMs == 600

Invocations == {1, 2}

(***************************************************************************)
(* Natural numbers of any size: the sequence of their digits in base       *)
(* LimbBase, least significant first, without leading zero digits.         *)
(***************************************************************************)
LimbBase == 65536

\* F applied to the value of v, which is computed once.
Let(v, F(_)) == CHOOSE r \in {F(x) : x \in {v}} : TRUE

\* a without its leading zero digits.
BigNorm(a) ==
  Let(a, LAMBDA v :
    SubSeq(v, 1, CHOOSE k \in 0..Len(v) :
                   (k = 0 \/ v[k] # 0) /\ \A j \in (k + 1)..Len(v) : v[j] = 0))

\* n < 2^31
BigOfInt(n) == BigNorm(<<n % LimbBase, n \div LimbBase>>)

RECURSIVE BigAddCarry(_, _, _)
BigAddCarry(a, b, carry) ==
  IF a = <<>> /\ b = <<>>
  THEN IF carry = 0 THEN <<>> ELSE <<carry>>
  ELSE Let(<<IF a = <<>> THEN a ELSE Tail(a),
             IF b = <<>> THEN b ELSE Tail(b),
             (IF a = <<>> THEN 0 ELSE a[1]) + (IF b = <<>> THEN 0 ELSE b[1]) + carry>>,
           LAMBDA v : <<v[3] % LimbBase>> \o BigAddCarry(v[1], v[2], v[3] \div LimbBase))

BigAdd(a, b) == BigAddCarry(a, b, 0)

RECURSIVE BigMulCarry(_, _, _)
BigMulCarry(a, k, carry) ==
  IF a = <<>>
  THEN IF carry = 0 THEN <<>> ELSE <<carry>>
  ELSE Let(<<Tail(a), a[1] * k + carry>>,
           LAMBDA v : <<v[2] % LimbBase>> \o BigMulCarry(v[1], k, v[2] \div LimbBase))

\* a * k, for 0 <= k <= 2^15
BigMulSmall(a, k) == BigNorm(BigMulCarry(a, k, 0))

\* Quotient and remainder of a by d, for 0 < d <= 2^15
RECURSIVE BigDivSmall(_, _)
BigDivSmall(a, d) ==
  IF a = <<>>
  THEN [q |-> <<>>, r |-> 0]
  ELSE Let(BigDivSmall(Tail(a), d), LAMBDA h :
         Let(h.r * LimbBase + a[1], LAMBDA x :
           [q |-> BigNorm(<<x \div d>> \o h.q), r |-> x % d]))

\* a * 2^n
BigShl(a, n) ==
  IF a = <<>> THEN a
  ELSE [i \in 1..(n \div 16) |-> 0] \o BigMulSmall(a, 2^(n % 16))

\* a \div 2^n
BigShr(a, n) ==
  IF n \div 16 >= Len(a) THEN <<>>
  ELSE BigDivSmall(SubSeq(a, (n \div 16) + 1, Len(a)), 2^(n % 16)).q

\* Bit i of a, bit 0 being the lowest.
BigBit(a, i) ==
  IF i \div 16 >= Len(a) THEN 0 ELSE (a[(i \div 16) + 1] \div 2^(i % 16)) % 2

\* Whether one of the bits 0 .. n-1 of a is set.
BigLowBits(a, n) ==
  \/ \E i \in 1..(n \div 16) : i <= Len(a) /\ a[i] # 0
  \/ (n \div 16) < Len(a) /\ a[(n \div 16) + 1] % 2^(n % 16) # 0

\* The number of bits of a.
BigBitLen(a) ==
  IF a = <<>> THEN 0
  ELSE 16 * (Len(a) - 1)
         + (CHOOSE k \in 1..16 : 2^(k - 1) <= a[Len(a)] /\ a[Len(a)] < 2^k)

\* -1, 0 or 1 as a is below, equal to or above b.
BigCmp(a, b) ==
  IF Len(a) < Len(b) THEN -1
  ELSE IF Len(a) > Len(b) THEN 1
  ELSE IF a = b THEN 0
  ELSE Let(CHOOSE i \in 1..Len(a) : a[i] # b[i] /\ \A j \in (i + 1)..Len(a) : a[j] = b[j],
           LAMBDA i : IF a[i] < b[i] THEN -1 ELSE 1)

(***************************************************************************)
(* Numbers m * 2^e.  A double is such a number with m of exactly           *)
(* MantissaBits bits, or zero; the values of the model are non-negative    *)
(* and far from the ends of the exponent range.                            *)
(***************************************************************************)
MantissaBits == 53

Dyadic(m, e) == [m |-> m, e |-> e]

Zero == Dyadic(<<>>, 0)

\* The digits of x and of y brought to the smaller of the two exponents.
Aligned(x, y) ==
  Let(IF x.e < y.e THEN x.e ELSE y.e, LAMBDA e :
    [x |-> BigShl(x.m, x.e - e), y |-> BigShl(y.m, y.e - e), e |-> e])

\* x + y, exactly.
DyAdd(x, y) ==
  Let(<<x, y>>, LAMBDA v :
    IF v[1].m = <<>> THEN v[2]
    ELSE IF v[2].m = <<>> THEN v[1]
    ELSE Let(Aligned(v[1], v[2]), LAMBDA a : Dyadic(BigAdd(a.x, a.y), a.e)))

\* -1, 0 or 1 as x is below, equal to or above y.
DyCmp(x, y) ==
  Let(<<x, y>>, LAMBDA v :
    IF v[1].m = <<>> THEN (IF v[2].m = <<>> THEN 0 ELSE -1)
    ELSE IF v[2].m = <<>> THEN 1
    ELSE Let(Aligned(v[1], v[2]), LAMBDA a : BigCmp(a.x, a.y)))

\* The double nearest to (n + f) * 2^e, where 0 <= f < 1 and sticky says
\* whether f > 0: round to nearest, ties to even.
Round(n, e, sticky) ==
  Let(BigBitLen(n), LAMBDA len :
    IF len = 0 THEN Zero
    ELSE IF len <= MantissaBits
    THEN Dyadic(BigShl(n, MantissaBits - len), e - (MantissaBits - len))
    ELSE Let(<<len - MantissaBits, BigShr(n, len - MantissaBits)>>, LAMBDA v :
           LET s == v[1]
               q == v[2]
               up == /\ BigBit(n, s - 1) = 1
                     /\ (sticky \/ BigLowBits(n, s - 1) \/ BigBit(q, 0) = 1)
           IN  Let(IF up THEN BigAdd(q, <<1>>) ELSE q, LAMBDA q1 :
                 IF BigBitLen(q1) > MantissaBits
                 THEN Dyadic(BigShr(q1, 1), e + s + 1)
                 ELSE Dyadic(q1, e + s))))

\* The double of a whole number n < 2^31.
Number(n) == Let(BigOfInt(n), LAMBDA b : Round(b, 0, FALSE))

\* x + y in doubles.
FAdd(x, y) == Let(DyAdd(x, y), LAMBDA z : Round(z.m, z.e, FALSE))

\* x * k / 2^s in doubles, for a whole k <= 2^15: x * 1.5 is x * 3 / 2.
FMul(x, k, s) ==
  Let(<<BigMulSmall(x.m, k), x.e - s>>, LAMBDA v : Round(v[1], v[2], FALSE))

\* x / d in doubles, for a whole 0 < d <= 2^14.
FDiv(x, d) ==
  Let(x, LAMBDA v :
    Let(BigDivSmall(BigShl(v.m, 16), d), LAMBDA h : Round(h.q, v.e - 16, h.r # 0)))

\* The number written n / d as a decimal, d a power of ten: 0.341 is
\* Decimal(341, 1000).
Decimal(n, d) == FDiv(Number(n), d)

\* -1, 0 or 1 as the double x is below, equal to or above the double y.
FCmp(x, y) ==
  Let(<<x, y>>, LAMBDA v :
    IF v[1].m = <<>> THEN (IF v[2].m = <<>> THEN 0 ELSE -1)
    ELSE IF v[2].m = <<>> THEN 1
    ELSE IF v[1].e < v[2].e THEN -1
    ELSE IF v[1].e > v[2].e THEN 1
    ELSE BigCmp(v[1].m, v[2].m))

(***************************************************************************)
(* Values: undefined, optional option fields, transactions and errors.     *)
(***************************************************************************)
Undefined == [kind |-> "undefined"]

None == <<>>

Some(v) == <<v>>

Nullish(o, d) == IF o = None THEN d ELSE o[1]

DEFAULT_TXN_TIMEOUT_SEC == 20

PendingTxn == [kind |-> "txn", type |-> "pending_transaction"]

CommittedTxn(success, vm) ==
  [kind |-> "txn", type |-> "user_transaction", success |-> success, vm_status |-> vm]

Transactions ==
  {PendingTxn,
   CommittedTxn(TRUE, "Executed successfully"),
   CommittedTxn(FALSE, "Move abort")}

CedraApiError(status) == [kind |-> "CedraApiError", status |-> status]

ApiStatuses == {400, 404, 429, 500, 503}

NetworkError == [kind |-> "Error"]

Responses ==
  Transactions \cup {CedraApiError(s) : s \in ApiStatuses} \cup {NetworkError}

\* The object the n-th request of an invocation resolved or rejected with.
Tagged(r, n) == r @@ [req |-> n]

WaitForTransactionError(message, lastSubmittedTransaction) ==
  [kind |-> "WaitForTransactionError", message |-> message,
   lastSubmittedTransaction |-> lastSubmittedTransaction]

FailedTransactionError(vm, transaction) ==
  [kind |-> "FailedTransactionError", message |-> <<"failed with an error", vm>>,
   transaction |-> transaction]

(***************************************************************************)
(* Inputs.                                                                 *)
(***************************************************************************)
\* options.timeoutSecs, in seconds: 0, 0.2, 0.341, 0.5 and MaxTimeoutMs / 1000.
TimeoutsSecs == {Decimal(t, 1000) : t \in {0, 200, 341, 500, MaxTimeoutMs}}

\* Date.now() - startTime after the long wait, in milliseconds.
LongPollDurations == {0, 141, MaxLongPollMs}

OptionSets ==
  [timeoutSecs : {None} \cup {Some(t) : t \in TimeoutsSecs},
   checkSuccess : {None, Some(TRUE), Some(FALSE)}]

PairOptionSets ==
  {[timeoutSecs |-> Some(Number(0)), checkSuccess |-> None],
   [timeoutSecs |-> Some(Decimal(200, 1000)), checkSuccess |-> Some(FALSE)]}

NoOutcome == [kind |-> "none"]

\* An invocation that has not been called yet.
NewCall(pc, options) ==
  [pc |-> pc, options |-> options,
   timeoutSecs |-> Zero, checkSuccess |-> TRUE,
   isPending |-> TRUE, timeElapsed |-> Number(0),
   lastTxn |-> Undefined, lastError |-> Undefined,
   backoffIntervalMs |-> Number(200),
   outcome |-> NoOutcome,
   \* observation of the run, never read by the code
   outstanding |-> 0, nRequests |-> 0, nLongPolls |-> 0, nPolls |-> 0,
   sleeps |-> <<>>, first |-> Undefined, resp |-> Undefined, respAt |-> "none",
   nRetryPolls |-> 0, lastErrReq |-> 0, lastTxnReq |-> 0, timedOut |-> FALSE,
   longPollTook |-> 0]

(***************************************************************************)
(* waitForTransaction, from one suspension point to the next.              *)
(***************************************************************************)
Throw(c, e) == [c EXCEPT !.pc = "done", !.outcome = [kind |-> "throw", error |-> e]]

Return(c, v) == [c EXCEPT !.pc = "done", !.outcome = [kind |-> "return", value |-> v]]
\* Variant: every 4xx, 404 included, is a request error.
isRequestError_Every4xx(status) == status >= 400 /\ status < 500

isRequestError(status) == status # 404 /\ status >= 400 /\ status < 500
\* Variant: an error that is not a CedraApiError is swallowed like a 404.
handleAPIError_RetriesAll(c, e) ==
  IF e.kind # "CedraApiError"
  THEN c
  ELSE LET c1 == [c EXCEPT !.lastError = e]
       IN  IF isRequestError(e.status) THEN Throw(c1, e) ELSE c1

\* Variant: lastError is assigned only on the way to the throw.
handleAPIError_RecordsFatalOnly(c, e) ==
  IF e.kind # "CedraApiError"
  THEN Throw(c, e)
  ELSE IF isRequestError(e.status) THEN Throw([c EXCEPT !.lastError = e], e) ELSE c

\* Variant: only the first CedraApiError is remembered.
handleAPIError_KeepsFirst(c, e) ==
  IF e.kind # "CedraApiError"
  THEN Throw(c, e)
  ELSE LET c1 == [c EXCEPT !.lastError = IF @ = Undefined THEN e ELSE @]
       IN  IF isRequestError(e.status) THEN Throw(c1, e) ELSE c1

handleAPIError(c, e) ==
  IF e.kind # "CedraApiError"
  THEN Throw(c, e)
  ELSE LET c1 == [c EXCEPT !.lastError = e]
       IN  IF isRequestError(e.status) THEN Throw(c1, e) ELSE c1
\* Variant: lastTxn is assigned and the flag is left as it was.
Settle_StaleFlag(c, r) ==
  IF r.kind = "txn"
  THEN [c EXCEPT !.lastTxn = r]
  ELSE handleAPIError(c, r)

\* try { lastTxn = await ...; isPending = lastTxn.type === Pending } catch (e) { handleAPIError(e) }
Settle(c, r) ==
  IF r.kind = "txn"
  THEN [c EXCEPT !.lastTxn = r, !.isPending = (r.type = "pending_transaction")]
  ELSE handleAPIError(c, r)
\* Variant: the success flag is not looked at.
PostChecks_IgnoresFailure(c) ==
  IF c.lastTxn = Undefined
  THEN IF c.lastError # Undefined
       THEN Throw(c, c.lastError)
       ELSE Throw(c, WaitForTransactionError("failed and timed out", c.lastTxn))
  ELSE IF c.lastTxn.type = "pending_transaction"
  THEN Throw(c, WaitForTransactionError("timed out in pending state", c.lastTxn))
  ELSE Return(c, c.lastTxn)

\* Variant: the pending snapshot is dropped from the timeout error.
PostChecks_DropsSnapshot(c) ==
  IF c.lastTxn = Undefined
  THEN IF c.lastError # Undefined
       THEN Throw(c, c.lastError)
       ELSE Throw(c, WaitForTransactionError("failed and timed out", c.lastTxn))
  ELSE IF c.lastTxn.type = "pending_transaction"
  THEN Throw(c, WaitForTransactionError("timed out in pending state", Undefined))
  ELSE IF ~c.checkSuccess
  THEN Return(c, c.lastTxn)
  ELSE IF ~c.lastTxn.success
  THEN Throw(c, FailedTransactionError(c.lastTxn.vm_status, c.lastTxn))
  ELSE Return(c, c.lastTxn)

PostChecks(c) ==
  IF c.lastTxn = Undefined
  THEN IF c.lastError # Undefined
       THEN Throw(c, c.lastError)
       ELSE Throw(c, WaitForTransactionError("failed and timed out", c.lastTxn))
  ELSE IF c.lastTxn.type = "pending_transaction"
  THEN Throw(c, WaitForTransactionError("timed out in pending state", c.lastTxn))
  ELSE IF ~c.checkSuccess
  THEN Return(c, c.lastTxn)
  ELSE IF ~c.lastTxn.success
  THEN Throw(c, FailedTransactionError(c.lastTxn.vm_status, c.lastTxn))
  ELSE Return(c, c.lastTxn)

Request(c, pc) ==
  [c EXCEPT !.pc = pc, !.outstanding = @ + 1, !.nRequests = @ + 1]
\* Variant: the timeout is compared with > instead of >=.
LoopHead_StrictTimeout(c) ==
  IF ~c.isPending
  THEN PostChecks(c)
  ELSE IF FCmp(c.timeElapsed, c.timeoutSecs) > 0
  THEN PostChecks([c EXCEPT !.timedOut = TRUE])
  ELSE [Request(c, "poll") EXCEPT !.nPolls = @ + 1]

\* while (isPending) { if (timeElapsed >= timeoutSecs) break; try { lastTxn = await getTransactionByHash ...
LoopHead(c) ==
  IF ~c.isPending
  THEN PostChecks(c)
  ELSE IF FCmp(c.timeElapsed, c.timeoutSecs) >= 0
  THEN PostChecks([c EXCEPT !.timedOut = TRUE])
  ELSE [Request(c, "poll") EXCEPT !.nPolls = @ + 1]
\* Variant: the long wait is done whether or not the transaction is pending.
LongWait_Always(c) == [Request(c, "longpoll") EXCEPT !.nLongPolls = @ + 1]

\* Variant: the long wait is left out.
LongWait_Never(c) == LoopHead(c)

\* if (isPending) { const startTime = Date.now(); try { lastTxn = await longWaitForTransaction ...
LongWait(c) ==
  IF c.isPending
  THEN [Request(c, "longpoll") EXCEPT !.nLongPolls = @ + 1]
  ELSE LoopHead(c)

\* A response that leaves the transaction pending: a pending transaction, or
\* a CedraApiError that is not a request error.
KeepsPending(r) ==
  \/ r.kind = "txn" /\ r.type = "pending_transaction"
  \/ r.kind = "CedraApiError" /\ ~(r.status # 404 /\ r.status >= 400 /\ r.status < 500)

\* The bookkeeping of a response: which request it answers and where.
Received(c, r) ==
  [c EXCEPT !.outstanding = @ - 1, !.resp = r, !.respAt = c.pc,
            !.first = IF c.pc = "fetch0" THEN r ELSE @,
            !.nRetryPolls = IF c.pc = "poll" /\ KeepsPending(r) THEN @ + 1 ELSE @,
            !.lastErrReq = IF r.kind = "CedraApiError" THEN r.req ELSE @,
            !.lastTxnReq = IF r.kind = "txn" THEN r.req ELSE @]

\* const timeoutSecs = ...; const checkSuccess = ...; the first fetch is issued.
Enter(c) ==
  Request([c EXCEPT !.timeoutSecs = Nullish(c.options.timeoutSecs, Number(DEFAULT_TXN_TIMEOUT_SEC)),
                    !.checkSuccess = Nullish(c.options.checkSuccess, TRUE)],
          "fetch0")

\* lastTxn = await getTransactionByHash(...) before the long wait settles with r.
AfterFirst(c, r) ==
  LET rt == Tagged(r, c.nRequests)
      c1 == Settle(Received(c, rt), rt)
  IN  IF c1.pc = "done" THEN c1 ELSE LongWait(c1)
\* Variant: the duration of the long wait is not put into timeElapsed.
AfterLongPoll_Unmeasured(c, r, d) ==
  LET rt == Tagged(r, c.nRequests)
      c1 == Settle(Received([c EXCEPT !.longPollTook = d], rt), rt)
  IN  IF c1.pc = "done" THEN c1 ELSE LoopHead(c1)

\* lastTxn = await longWaitForTransaction(...) settles with r after d ms of wall-clock
\* time; timeElapsed = (Date.now() - startTime) / 1000.
AfterLongPoll(c, r, d) ==
  LET rt == Tagged(r, c.nRequests)
      c1 == Settle(Received([c EXCEPT !.longPollTook = d], rt), rt)
  IN  IF c1.pc = "done" THEN c1 ELSE LoopHead([c1 EXCEPT !.timeElapsed = FDiv(Number(d), 1000)])
\* Variant: the next fetch is started without awaiting the sleep.
Sleep_Prefetch(c) ==
  [c EXCEPT !.pc = "sleep", !.sleeps = Append(@, c.backoffIntervalMs),
            !.outstanding = @ + 1, !.nRequests = @ + 1]

\* await sleep(backoffIntervalMs) is entered.
Sleep(c) ==
  [c EXCEPT !.pc = "sleep", !.sleeps = Append(@, c.backoffIntervalMs)]

\* lastTxn = await getTransactionByHash(...) inside the loop settles with r.
AfterPoll(c, r) ==
  LET rt == Tagged(r, c.nRequests)
      c1 == Settle(Received(c, rt), rt)
  IN  IF c1.pc = "done" THEN c1
      ELSE IF ~c1.isPending THEN PostChecks(c1)
      ELSE Sleep(c1)
\* Variant: the interval doubles.
Backoff_Doubling(c) ==
  [c EXCEPT !.timeElapsed = FAdd(@, FDiv(c.backoffIntervalMs, 1000)),
            !.backoffIntervalMs = FMul(@, 2, 0)]

\* timeElapsed += backoffIntervalMs / 1000; backoffIntervalMs *= backoffMultiplier
Backoff(c) ==
  [c EXCEPT !.timeElapsed = FAdd(@, FDiv(c.backoffIntervalMs, 1000)),
            !.backoffIntervalMs = FMul(@, 3, 1)]

\* The sleep is over; the loop goes round.
AfterSleep(c) == Let(Backoff(c), LoopHead)
\* Variant: backoffIntervalMs is one variable shared by all invocations.
Store_SharedBackoff(i, c) ==
  [j \in Invocations |->
     IF j = i THEN c ELSE [calls[j] EXCEPT !.backoffIntervalMs = c.backoffIntervalMs]]

\* The locals of an invocation live in its own activation.
Store(i, c) == [calls EXCEPT ![i] = c]

Call(i) ==
  /\ calls[i].pc = "ready"
  /\ calls' = Store(i, Enter(calls[i]))
  /\ UNCHANGED notCalls

RespondFirst(i, r) ==
  /\ calls[i].pc = "fetch0"
  /\ calls' = Store(i, AfterFirst(calls[i], r))
  /\ UNCHANGED notCalls

RespondLongPoll(i, r, d) ==
  /\ calls[i].pc = "longpoll"
  /\ calls' = Store(i, AfterLongPoll(calls[i], r, d))
  /\ UNCHANGED notCalls

RespondPoll(i, r) ==
  /\ calls[i].pc = "poll"
  /\ calls' = Store(i, AfterPoll(calls[i], r))
  /\ UNCHANGED notCalls

Wake(i) ==
  /\ calls[i].pc = "sleep"
  /\ calls' = Store(i, AfterSleep(calls[i]))
  /\ UNCHANGED notCalls

Step(i) ==
  \/ Call(i)
  \/ \E r \in Responses : RespondFirst(i, r)
  \/ \E r \in Responses, d \in LongPollDurations : RespondLongPoll(i, r, d)
  \/ \E r \in Responses : RespondPoll(i, r)
  \/ Wake(i)

IdleOptions == [timeoutSecs |-> None, checkSuccess |-> None]

\* One invocation.
Init ==
  /\ \E o \in OptionSets :
       calls = [i \in Invocations |->
                  IF i = 1 THEN NewCall("ready", o) ELSE NewCall("idle", IdleOptions)]
  /\ blk = Off /\ worker = Off /\ memo = Off /\ pend = Off /\ idx = Off /\ acct = Off
  /\ bcs = Off /\ escrow = Off

\* Every invocation runs, each with its own options.
InitPair ==
  /\ \E os \in [Invocations -> PairOptionSets] :
       calls = [i \in Invocations |-> NewCall("ready", os[i])]
  /\ blk = Off /\ worker = Off /\ memo = Off /\ pend = Off /\ idx = Off /\ acct = Off
  /\ bcs = Off /\ escrow = Off

Next ==
  \/ \E i \in Invocations : Call(i)
  \/ \E i \in Invocations, r \in Responses : RespondFirst(i, r)
  \/ \E i \in Invocations, r \in Responses, d \in LongPollDurations : RespondLongPoll(i, r, d)
  \/ \E i \in Invocations, r \in Responses : RespondPoll(i, r)
  \/ \E i \in Invocations : Wake(i)

Spec == Init /\ [][Next]_vars

PairSpec == InitPair /\ [][Next]_vars

\* Every request completes and every sleep ends.
LiveSpec == Spec /\ \A i \in Invocations : WF_vars(Step(i))

\* The numbers are doubles and the records are well formed.
IsDouble(x) == x = Zero \/ BigBitLen(x.m) = MantissaBits

TypeOK ==
  \A i \in Invocations :
    /\ calls[i].pc \in {"idle", "ready", "fetch0", "longpoll", "poll", "sleep", "done"}
    /\ IsDouble(calls[i].backoffIntervalMs) /\ calls[i].backoffIntervalMs # Zero
    /\ calls[i].isPending \in BOOLEAN
    /\ IsDouble(calls[i].timeElapsed)
    /\ IsDouble(calls[i].timeoutSecs)
    /\ calls[i].longPollTook \in Nat

(***************************************************************************)
(* Vocabulary of the properties.  They speak about the options the caller  *)
(* passed, the responses the transport gave and the outcome of the call.   *)
(***************************************************************************)
Started == {i \in Invocations : calls[i].pc \notin {"idle", "ready"}}

Finished == {i \in Invocations : calls[i].pc = "done"}

IsTxn(r) == r.kind = "txn"

IsPendingTxn(r) == r.kind = "txn" /\ r.type = "pending_transaction"

IsCommitted(r) == r.kind = "txn" /\ r.type # "pending_transaction"

IsApiError(r) == r.kind = "CedraApiError"

\* A 4xx other than 404.
IsFatalStatus(r) == IsApiError(r) /\ r.status \in 400..499 /\ r.status # 404

\* 404 or 5xx.
IsRetryStatus(r) == IsApiError(r) /\ (r.status = 404 \/ r.status \in 500..599)

Threw(c, e) == c.pc = "done" /\ c.outcome = [kind |-> "throw", error |-> e]

Returned(c, v) == c.pc = "done" /\ c.outcome = [kind |-> "return", value |-> v]

\* checkSuccess as the caller asked for it: true when omitted.
WantsSuccess(c) == c.options.checkSuccess \in {None, Some(TRUE)}

\* x * k / 2^s, exactly.
DyMul(x, k, s) == Dyadic(BigMulSmall(x.m, k), x.e - s)

\* The n-th backoff interval (n = 0 for the first): 200 * 1.5^n ms, exactly.
RECURSIVE GeoInterval(_)
GeoInterval(n) ==
  IF n = 0 THEN Dyadic(BigOfInt(200), 0) ELSE DyMul(GeoInterval(n - 1), 3, 1)

\* The sum of the first k backoff intervals, exactly: 200 + 300 + ... ms.
RECURSIVE GeoSum(_)
GeoSum(k) == IF k = 0 THEN Zero ELSE DyAdd(GeoSum(k - 1), GeoInterval(k - 1))

\* s = 400 * (1.5^k - 1), as s + 400 = 2 * 200 * 1.5^k.
IsGeoSum(s, k) == DyCmp(DyAdd(s, Dyadic(BigOfInt(400), 0)), DyMul(GeoInterval(k), 2, 0)) = 0

\* The least n' >= n with 0.4 * (1.5^n' - 1) >= t for t in seconds, as
\* 400 * (1.5^n' - 1) >= 1000 * t, given sum = 400 * (1.5^n - 1) and
\* interval = 200 * 1.5^n.
RECURSIVE LeastFrom(_, _, _, _)
LeastFrom(n, sum, interval, t) ==
  IF DyCmp(sum, DyMul(t, 1000, 0)) >= 0 THEN n
  ELSE LeastFrom(n + 1, DyAdd(sum, interval), DyMul(interval, 3, 1), t)

\* The least n with 0.4 * (1.5^n - 1) >= t seconds.
PollBound(t) == LeastFrom(0, Zero, GeoInterval(0), t)

\* C1: once the last response is a non-pending transaction the call is over;
\* with checkSuccess true or omitted and success false it has thrown a
\* FailedTransactionError carrying that transaction and its vm_status, in
\* every other case it has returned that transaction.
C1_NonPendingOutcome ==
  \A i \in Started :
    LET c == calls[i]
    IN  IsCommitted(c.resp) =>
          IF WantsSuccess(c) /\ ~c.resp.success
          THEN Threw(c, [kind |-> "FailedTransactionError",
                         message |-> <<"failed with an error", c.resp.vm_status>>,
                         transaction |-> c.resp])
          ELSE Returned(c, c.resp)

\* A failed transaction seen by a polling fetch with checkSuccess omitted,
\* and the FailedTransactionError thrown for it.
C1_Witness ==
  \E i \in Finished :
    /\ calls[i].options.checkSuccess = None
    /\ calls[i].respAt = "poll"
    /\ IsCommitted(calls[i].resp) /\ ~calls[i].resp.success
    /\ calls[i].outcome.kind = "throw"
    /\ calls[i].outcome.error.kind = "FailedTransactionError"

\* C2 as stated: a call that stopped at the timeout while still pending has
\* thrown a WaitForTransactionError, whatever the transport answered.
C2_AsStated ==
  \A i \in Finished :
    calls[i].timedOut =>
      /\ calls[i].outcome.kind = "throw"
      /\ calls[i].outcome.error.kind = "WaitForTransactionError"

\* C2 amended: a call that stopped at the timeout while still pending has
\* thrown a WaitForTransactionError carrying the most recent snapshot if some
\* request returned a transaction, and the last CedraApiError otherwise.
C2_TimedOutPending ==
  \A i \in Finished :
    LET c == calls[i]
    IN  c.timedOut =>
          IF c.lastTxnReq > 0
          THEN /\ c.outcome.kind = "throw"
               /\ c.outcome.error.kind = "WaitForTransactionError"
               /\ c.outcome.error.message = "timed out in pending state"
               /\ IsPendingTxn(c.outcome.error.lastSubmittedTransaction)
               /\ c.outcome.error.lastSubmittedTransaction.req = c.lastTxnReq
          ELSE /\ c.outcome.kind = "throw"
               /\ IsApiError(c.outcome.error)

\* A timeout after pending snapshots and a later 'not found': the error
\* carries the snapshot of the last request that returned one.
C2_Witness ==
  \E i \in Finished :
    /\ calls[i].timedOut
    /\ calls[i].lastTxnReq >= 3
    /\ calls[i].lastErrReq > calls[i].lastTxnReq
    /\ calls[i].outcome.error.kind = "WaitForTransactionError"
    /\ calls[i].outcome.error.lastSubmittedTransaction.req = calls[i].lastTxnReq

\* C3: a 4xx other than 404 ends the call at once with that very error: no
\* request is issued and no sleep is started after it.  A 404 or a 5xx never
\* ends the call by itself: the transaction stays pending, the long poll
\* follows the first fetch, a sleep follows a polling fetch, and the call
\* ends after such a response only by the timeout.
C3_ErrorClassification ==
  \A i \in Started :
    LET c == calls[i]
    IN  /\ IsFatalStatus(c.resp) =>
             /\ Threw(c, c.resp)
             /\ c.nRequests = c.resp.req
             /\ c.outstanding = 0
             /\ Len(c.sleeps) = c.nRetryPolls
        /\ (IsRetryStatus(c.resp) /\ c.nRequests = c.resp.req) =>
             /\ c.isPending
             /\ c.lastError = c.resp
             /\ c.respAt = "poll" => Len(c.sleeps) = c.nPolls
             /\ c.pc = "done" => c.timedOut
        /\ (IsRetryStatus(c.resp) /\ c.respAt = "fetch0") => c.nLongPolls = 1

\* A 404 answered by a polling fetch was slept on, and a later 429 ended
\* the call.
C3_Witness ==
  \E i \in Finished :
    /\ calls[i].respAt = "poll"
    /\ IsFatalStatus(calls[i].resp)
    /\ calls[i].lastError = calls[i].resp
    /\ calls[i].nRetryPolls >= 1
    /\ calls[i].lastTxnReq = 0

\* C4: a call that reached the timeout without any request ever returning a
\* transaction has thrown the CedraApiError of the most recent failed request.
C4_LastErrorSurfaced ==
  \A i \in Finished :
    LET c == calls[i]
    IN  (c.timedOut /\ c.lastTxnReq = 0) =>
          /\ c.outcome.kind = "throw"
          /\ IsApiError(c.outcome.error)
          /\ c.outcome.error.req = c.lastErrReq
          /\ c.outcome.error = c.resp

\* Four failed requests, the last one a 5xx after a 404, then the timeout.
C4_Witness ==
  \E i \in Finished :
    /\ calls[i].timedOut
    /\ calls[i].lastTxnReq = 0
    /\ calls[i].lastErrReq >= 4
    /\ calls[i].resp.status = 503
    /\ calls[i].outcome.error.req = 4

\* C5: when the first fetch returns a non-pending transaction the call is
\* over with one request in total, no long poll, no polling fetch, no sleep.
C5_ImmediateFinish ==
  \A i \in Started :
    LET c == calls[i]
    IN  IsCommitted(c.first) =>
          /\ c.pc = "done"
          /\ c.nRequests = 1
          /\ c.nLongPolls = 0
          /\ c.nPolls = 0
          /\ c.sleeps = <<>>
          /\ c.timeElapsed = Zero

\* The first fetch returned a committed transaction and the call returned it.
C5_Witness ==
  \E i \in Finished :
    /\ IsCommitted(calls[i].first)
    /\ calls[i].outcome = [kind |-> "return", value |-> calls[i].first]

\* C6: at most one long poll per call; a polling fetch is only issued after
\* the long poll; a first fetch that leaves the transaction pending is
\* followed by the long poll, a non-pending one by none.
C6_OneLongPoll ==
  \A i \in Started :
    LET c == calls[i]
    IN  /\ c.nLongPolls <= 1
        /\ c.nPolls > 0 => c.nLongPolls = 1
        /\ c.nRequests = 1 + c.nLongPolls + c.nPolls
        /\ (c.first # Undefined /\ KeepsPending(c.first)) => c.nLongPolls = 1
        /\ (c.first # Undefined /\ ~KeepsPending(c.first)) => c.nLongPolls = 0

\* Polling went on for three fetches after the one long poll.
C6_Witness ==
  \E i \in Started :
    /\ IsPendingTxn(calls[i].first)
    /\ calls[i].nLongPolls = 1
    /\ calls[i].nPolls >= 3

\* The sum of the numbers of q, exactly.
SumSeq(q) ==
  LET RECURSIVE sum(_)
      sum(n) == IF n = 0 THEN Zero ELSE DyAdd(q[n], sum(n - 1))
  IN  sum(Len(q))

\* C7: a sleep has followed every polling fetch that left the transaction
\* pending, the j-th sleep lasts exactly 200 * 1.5^(j-1) ms, and the total
\* time slept after k such fetches is exactly the geometric sum
\* 200 + 300 + ... = 400 * (1.5^k - 1) ms.

C7_BackoffSchedule ==
  \A i \in Started :
    LET c == calls[i]
        k == c.nRetryPolls
    IN  /\ Len(c.sleeps) = k
        /\ \A j \in 1..Len(c.sleeps) :
             IsDouble(c.sleeps[j]) /\ DyCmp(c.sleeps[j], GeoInterval(j - 1)) = 0
        /\ DyCmp(SumSeq(c.sleeps), GeoSum(k)) = 0
        /\ IsGeoSum(SumSeq(c.sleeps), k)
        /\ (c.pc = "done" /\ c.nPolls > 0 /\ c.outcome.kind = "return") =>
             /\ IsCommitted(c.outcome.value)
             /\ c.nPolls = k + 1
             /\ IsGeoSum(SumSeq(c.sleeps), c.nPolls - 1)

\* 'Not found' from the first fetch on, four times by polling fetches, then a
\* committed transaction: the call returned it after 200+300+450+675 ms.
C7_Witness ==
  \E i \in Finished :
    /\ calls[i].first.kind = "CedraApiError" /\ calls[i].first.status = 404
    /\ calls[i].lastError.status = 404
    /\ calls[i].lastError.req = calls[i].nRequests - 1
    /\ calls[i].nRetryPolls = 4
    /\ calls[i].outcome.kind = "return"
    /\ calls[i].sleeps = <<Number(200), Number(300), Number(450), Number(675)>>
    /\ DyCmp(SumSeq(calls[i].sleeps), Number(200 + 300 + 450 + 675)) = 0

\* C8: every call that was started ends, and it never issues more polling
\* fetches than the least n with 0.4 * (1.5^n - 1) >= timeoutSecs.
C8_Terminates ==
  /\ [](\A i \in Started : calls[i].nPolls <= PollBound(calls[i].timeoutSecs))
  /\ \A i \in Invocations : (calls[i].pc = "ready") ~> (calls[i].pc = "done")

\* A call that used up all the polling fetches its timeout allows.
C8_Witness ==
  \E i \in Finished :
    /\ calls[i].timedOut
    /\ calls[i].nPolls >= 3
    /\ calls[i].nPolls = PollBound(calls[i].timeoutSecs)

\* C9: a call has at most one request outstanding, exactly while it awaits
\* one, and none while it sleeps.
C9_Sequential ==
  \A i \in Invocations :
    LET c == calls[i]
    IN  /\ c.outstanding \in {0, 1}
        /\ c.outstanding = 1 <=> c.pc \in {"fetch0", "longpoll", "poll"}
        /\ c.pc = "sleep" => c.outstanding = 0

\* A call asleep between two polling fetches.
C9_Witness ==
  \E i \in Started :
    /\ calls[i].pc = "sleep"
    /\ calls[i].nPolls >= 2
    /\ calls[i].outstanding = 0

\* What one invocation can do next, from its own locals, its own options and
\* the response to its own request.
OwnStep(c, c2) ==
  CASE c.pc = "ready" -> c2 = Enter(c)
    [] c.pc = "fetch0" -> \E r \in Responses : c2 = AfterFirst(c, r)
    [] c.pc = "longpoll" ->
         \E r \in Responses, d \in LongPollDurations : c2 = AfterLongPoll(c, r, d)
    [] c.pc = "poll" -> \E r \in Responses : c2 = AfterPoll(c, r)
    [] c.pc = "sleep" -> c2 = AfterSleep(c)
    [] OTHER -> FALSE

\* C10: whatever two concurrent calls do in between, a step changes one call
\* only, and what it changes it to is one of that call's own steps.
C10_Independent ==
  [][\E i \in Invocations :
       /\ \A j \in Invocations \ {i} : calls'[j] = calls[j]
       /\ OwnStep(calls[i], calls'[i])]_vars

\* Two calls in flight at once, one asleep after an error, the other ended
\* by a timeout on a pending snapshot.
C10_Witness ==
  /\ calls[1].pc = "sleep"
  /\ calls[1].lastError # Undefined
  /\ calls[2].pc = "done"
  /\ calls[2].timedOut
  /\ calls[2].lastError = Undefined

\* C24: once a fetch has succeeded, isPending says whether the stored
\* snapshot is pending, the snapshot is that of the latest successful fetch,
\* and a normal return yields that snapshot, which is not pending.
C24_FlagMatchesSnapshot ==
  \A i \in Started :
    LET c == calls[i] IN
      /\ c.lastTxn # Undefined =>
           /\ c.isPending <=> IsPendingTxn(c.lastTxn)
           /\ c.lastTxn.req = c.lastTxnReq
      /\ c.lastTxn = Undefined => c.isPending /\ c.lastTxnReq = 0
      /\ (c.pc = "done" /\ c.outcome.kind = "return") =>
           /\ c.outcome.value = c.lastTxn
           /\ IsCommitted(c.outcome.value)
           /\ ~c.isPending

\* The third request brought the committed transaction that is returned,
\* after two pending snapshots.
C24_Witness ==
  \E i \in Started :
    LET c == calls[i] IN
      /\ c.pc = "done" /\ c.outcome.kind = "return"
      /\ IsPendingTxn(c.first)
      /\ c.nLongPolls = 1
      /\ c.lastTxnReq = 3
      /\ c.outcome.value.req = 3

\* C25: while no snapshot has been stored, every response so far was a
\* CedraApiError that is retried and the last of them is in lastError; so
\* the post-polling checks, reached without a snapshot, throw that error and
\* never the WaitForTransactionError "failed and timed out".
C25_NoGenericTimeout ==
  \A i \in Started :
    LET c == calls[i] IN
      /\ (c.pc \in {"longpoll", "poll", "sleep"} /\ c.lastTxn = Undefined) =>
           /\ c.lastError # Undefined
           /\ IsRetryStatus(c.lastError)
           /\ c.lastError = c.resp
      /\ (c.pc = "done" /\ c.timedOut /\ c.lastTxn = Undefined) =>
           /\ c.lastError # Undefined
           /\ Threw(c, c.lastError)
      /\ (c.pc = "done" /\ c.outcome.kind = "throw") =>
           ~(/\ c.outcome.error.kind = "WaitForTransactionError"
             /\ c.outcome.error.message = "failed and timed out")

\* The time ran out after three requests that all failed with a retried
\* status: the last of the errors is thrown.
C25_Witness ==
  \E i \in Started :
    LET c == calls[i] IN
      /\ c.pc = "done" /\ c.timedOut
      /\ c.lastTxn = Undefined
      /\ c.nRequests = 3
      /\ c.lastErrReq = 3
      /\ Threw(c, c.lastError)

\* C26: a response that is an error other than a CedraApiError ends the
\* invocation at once: the very error is thrown, it is not in lastError, no
\* request is outstanding or made after it, and no sleep follows it.
C26_OtherErrorsPropagate ==
  \A i \in Started :
    LET c == calls[i] IN
      (c.resp # Undefined /\ c.resp.kind = "Error") =>
        /\ Threw(c, c.resp)
        /\ c.lastError # c.resp
        /\ c.lastErrReq # c.resp.req
        /\ c.outstanding = 0
        /\ c.nRequests = c.resp.req
        /\ Len(c.sleeps) = IF c.respAt = "poll" THEN c.nPolls - 1 ELSE 0

\* A polling fetch failed with a network error after a 404 had been
\* recorded and one sleep had been done.
C26_Witness ==
  \E i \in Started :
    LET c == calls[i] IN
      /\ c.resp # Undefined /\ c.resp.kind = "Error"
      /\ c.respAt = "poll"
      /\ c.nPolls = 2
      /\ c.lastError # Undefined /\ c.lastError.status = 404
      /\ c.pc = "done"

\* The sleeps that are over.
SleepsDone(c) ==
  IF c.pc = "sleep" THEN SubSeq(c.sleeps, 1, Len(c.sleeps) - 1) ELSE c.sleeps

\* d ms in seconds, plus the intervals of q in seconds one after the other,
\* every division and addition in doubles.
ElapsedOf(d, q) ==
  LET RECURSIVE acc(_)
      acc(n) == IF n = 0 THEN FDiv(Number(d), 1000)
                ELSE FAdd(acc(n - 1), FDiv(q[n], 1000))
  IN  acc(Len(q))

\* C27: timeElapsed is the measured duration of the long wait plus the
\* sleeps that are over, added up in doubles, and nothing else (unless an
\* error left the long wait before the measurement); a polling fetch is in
\* flight only if timeElapsed was below timeoutSecs when it was issued; and
\* with timeoutSecs = 0 a transaction found pending is given up after
\* exactly two requests.
C27_TimeoutAccounting ==
  \A i \in Started :
    LET c == calls[i] IN
      /\ ~(c.respAt = "longpoll" /\ Threw(c, c.resp)) =>
           c.timeElapsed = ElapsedOf(c.longPollTook, SleepsDone(c))
      /\ c.pc = "poll" => FCmp(c.timeElapsed, c.timeoutSecs) < 0
      /\ (c.pc = "done" /\ c.timeoutSecs = Zero /\ IsPendingTxn(c.first)) =>
           /\ c.nRequests = 2
           /\ c.nLongPolls = 1
           /\ c.nPolls = 0

\* A long wait of 141 ms and a sleep of 200 ms make 0.34099999999999997 s
\* in doubles, below the timeout of 0.341 s: a second polling fetch and a
\* sleep of 300 ms follow before the call gives up, with two polling
\* fetches whose latency counted for nothing.
C27_Witness ==
  \E i \in Started :
    LET c == calls[i] IN
      /\ c.pc = "done" /\ c.timedOut
      /\ c.timeoutSecs = Decimal(341, 1000)
      /\ c.longPollTook = 141
      /\ c.sleeps = <<Number(200), Number(300)>>
      /\ FCmp(ElapsedOf(141, <<Number(200)>>), Decimal(341, 1000)) < 0
      /\ c.timeElapsed = ElapsedOf(141, c.sleeps)
      /\ c.nPolls = 2
      /\ c.nRequests = 4

(***************************************************************************)
(* getBlockByVersion / getBlockByHeight and fillBlockTransactions          *)
(* (src/src/internal/transaction.ts:397-503).  A transaction is its        *)
(* version; the node holds every version of a committed block.             *)
(***************************************************************************)
MaxBlockSize == 102

PageSize == 100

notBlk == <<calls, worker, memo, pend, idx, acct, bcs, escrow>>

Min(a, b) == IF a <= b THEN a ELSE b

\* The transactions with versions from, from + 1, ..., from + n - 1.
Versions(from, n) == [k \in 1..n |-> from + k - 1]

\* getTransactions({ options: { offset, limit } }) as the node answers it.
getTransactions(offset, limit) == Versions(offset, limit)

\* for (let i = latestVersion + 1n; i < lastVersion; i += BigInt(100)) fetchFutures.push(...)
RECURSIVE fetchFutures(_, _)
fetchFutures(i, lastVersion) ==
  IF i < lastVersion
  THEN <<[offset |-> i, limit |-> Min(PageSize, lastVersion - i + 1), txns |-> None]>>
         \o fetchFutures(i + 100, lastVersion)
  ELSE <<>>

\* block.transactions.push(...txns) for every response, in the order of the futures.
RECURSIVE pushAll(_, _)
pushAll(transactions, responses) ==
  IF responses = <<>> THEN transactions
  ELSE pushAll(transactions \o Head(responses).txns[1], Tail(responses))

\* fillBlockTransactions up to the return or to await Promise.all(fetchFutures).
fillBlockTransactions(b, block) ==
  IF Nullish(b.options.withTransactions, FALSE)
  THEN LET transactions == Nullish(block.transactions, <<>>)
           filled == [block EXCEPT !.transactions = Some(transactions)]
           latestVersion == IF transactions = <<>>
                            THEN block.first_version - 1
                            ELSE transactions[Len(transactions)]
       IN  IF latestVersion = block.last_version
           THEN [b EXCEPT !.pc = "done", !.block = filled]
           ELSE [b EXCEPT !.pc = "pages", !.block = filled,
                          !.pages = fetchFutures(latestVersion + 1, block.last_version)]
  ELSE [b EXCEPT !.pc = "done", !.block = block]

\* What the node answers to blocks/by_height or blocks/by_version: the block
\* with the first n of its transactions when they were asked for.
NodeBlock(b, n) ==
  [first_version |-> b.first, last_version |-> b.first + b.size - 1,
   transactions |-> IF Nullish(b.options.withTransactions, FALSE)
                    THEN Some(Versions(b.first, n)) ELSE None]

NewBlockCall(by, first, size, withTransactions) ==
  [pc |-> "ready", by |-> by, first |-> first, size |-> size,
   options |-> [withTransactions |-> withTransactions],
   block |-> Undefined, pages |-> <<>>]

\* getBlockByHeight: the request goes out.
GetBlockByHeight ==
  /\ blk.pc = "ready" /\ blk.by = "height"
  /\ blk' = [blk EXCEPT !.pc = "block"]
  /\ UNCHANGED notBlk

\* getBlockByVersion: the request goes out.
GetBlockByVersion ==
  /\ blk.pc = "ready" /\ blk.by = "version"
  /\ blk' = [blk EXCEPT !.pc = "block"]
  /\ UNCHANGED notBlk

\* The node answers with the block and the first n of its transactions.
BlockAnswer(n) ==
  /\ blk.pc = "block"
  /\ n \in 0..blk.size
  /\ Nullish(blk.options.withTransactions, FALSE) \/ n = 0
  /\ blk' = fillBlockTransactions(blk, NodeBlock(blk, n))
  /\ UNCHANGED notBlk

\* One of the getTransactions requests is answered.
PageAnswer(k) ==
  /\ blk.pc = "pages"
  /\ k \in 1..Len(blk.pages)
  /\ blk.pages[k].txns = None
  /\ blk' = [blk EXCEPT !.pages[k].txns =
                          Some(getTransactions(blk.pages[k].offset, blk.pages[k].limit))]
  /\ UNCHANGED notBlk

\* Promise.all(fetchFutures) resolves; the responses are pushed and the block returned.
Combine ==
  /\ blk.pc = "pages"
  /\ \A k \in 1..Len(blk.pages) : blk.pages[k].txns # None
  /\ blk' = [blk EXCEPT !.pc = "done",
                        !.block.transactions = Some(pushAll(@[1], blk.pages))]
  /\ UNCHANGED notBlk

BlockInit ==
  /\ \E by \in {"height", "version"}, first \in {0, 57}, size \in 1..MaxBlockSize,
        w \in {None, Some(TRUE), Some(FALSE)} :
       blk = NewBlockCall(by, first, size, w)
  /\ CallsOff
  /\ worker = Off /\ memo = Off /\ pend = Off /\ idx = Off /\ acct = Off
  /\ bcs = Off /\ escrow = Off

BlockNext ==
  \/ GetBlockByHeight
  \/ GetBlockByVersion
  \/ \E n \in 0..MaxBlockSize : BlockAnswer(n)
  \/ \E k \in 1..2 : PageAnswer(k)
  \/ Combine

BlockSpec == BlockInit /\ [][BlockNext]_vars

\* C11: a block fetched with withTransactions = true is returned with all its
\* transactions: versions first_version, first_version + 1, ..., last_version.
C11_BlockComplete ==
  (blk.pc = "done" /\ blk.options.withTransactions = Some(TRUE)) =>
    /\ blk.block.transactions # None
    /\ blk.block.transactions[1] = Versions(blk.first, blk.size)
    /\ Len(blk.block.transactions[1]) = blk.block.last_version - blk.block.first_version + 1

(***************************************************************************)
(* Batch submission: TransactionManagement.forSingleAccount                *)
(* (src/src/api/account.ts:1058-1108, 1181-1194) constructs and starts a   *)
(* transaction worker for the sender on every call and hands it every      *)
(* payload; the workers of earlier calls keep running.  The worker itself  *)
(* is modelled from its description (src/unnamed/part_003:5-17): it takes  *)
(* a payload, acquires a new sequence number of the account, signs and     *)
(* submits; its local sequence number starts from the on-chain state; with *)
(* maximumInFlight transactions in flight it waits sleepTime before        *)
(* re-evaluating, and after maxWaitTime it restarts the local sequence     *)
(* number to the current on-chain state.  The chain executes a transaction *)
(* whose sequence number is the account's and discards one whose number    *)
(* was used.                                                               *)
(***************************************************************************)
MaxPayloads == 3

MaxInFlight == 2

MaxWorkers == 2

\* maxWaitTime, in waits of sleepTime.
MaxWaitSleeps == 1

notWorker == <<calls, blk, memo, pend, idx, acct, bcs, escrow>>

Senders == {"alice", "bob"}

\* The events registerToEvents listens to on the worker.
WorkerEvents ==
  {"TransactionSent", "TransactionSendFailed", "TransactionExecuted",
   "TransactionExecutionFailed", "ExecutionFinish"}

\* Where a call of forSingleAccount can throw: nowhere, in the constructor
\* of the worker, in its start(), or in its push() of the k-th payload.
FailPoints(n) ==
  {[at |-> "none", k |-> 0], [at |-> "new", k |-> 0], [at |-> "start", k |-> 0]}
    \cup {[at |-> "push", k |-> k] : k \in 1..n}

\* new TransactionWorker(config, sender)
NewWorker(sender) ==
  [sender |-> sender, started |-> FALSE, listeners |-> {},
   handed |-> <<>>, queue |-> <<>>,
   currentNumber |-> None, lastUncommitted |-> None, waited |-> 0]

\* A TransactionManagement on which nothing was called yet.
NewManagement(onChain) ==
  [pc |-> "on", account |-> Undefined, transactionWorker |-> 0, workers |-> <<>>,
   threw |-> FALSE, outcome |-> NoOutcome,
   onChain0 |-> onChain, onChain |-> onChain,
   status |-> [p \in 1..MaxPayloads |-> "none"],
   owner |-> [p \in 1..MaxPayloads |-> 0],
   log |-> [s \in Senders |-> <<>>]]

Failing(m, error) == [m EXCEPT !.threw = TRUE, !.outcome = [kind |-> "throw", error |-> error]]

\* this.account = sender; this.transactionWorker = new TransactionWorker(this.config, sender);
\* this.transactionWorker.start(); this.registerToEvents()
start(m, sender, fail) ==
  LET m1 == [m EXCEPT !.account = sender]
      m2 == [m1 EXCEPT !.workers = Append(@, NewWorker(sender)),
                       !.transactionWorker = Len(m.workers) + 1]
  IN  IF fail.at = "new" THEN Failing(m1, "new")
      ELSE IF fail.at = "start" THEN Failing(m2, "start")
      ELSE [m2 EXCEPT !.workers[m2.transactionWorker].started = TRUE,
                      !.workers[m2.transactionWorker].listeners = WorkerEvents]

\* this.transactionWorker.push(d, options)
Hand(m, d) ==
  [m EXCEPT !.workers[m.transactionWorker].handed = Append(@, d),
            !.workers[m.transactionWorker].queue = Append(@, d),
            !.owner[d] = m.transactionWorker]

RECURSIVE HandAll(_, _, _, _)
HandAll(m, data, k, fail) ==
  IF k > Len(data) THEN m
  ELSE IF fail.at = "push" /\ fail.k = k THEN Failing(m, "push")
  ELSE HandAll(Hand(m, data[k]), data, k + 1, fail)
\* for (const d of data) this.transactionWorker.push(d, options)
push(m, data, fail) == HandAll(m, data, 1, fail)

\* try { this.start({ sender }); this.push({ data, options }) }
\* catch (error) { throw new Error(`failed to submit transactions with error: ${error}`) }
forSingleAccount(m, sender, data, fail) ==
  LET m0 == [m EXCEPT !.threw = FALSE, !.outcome = NoOutcome]
      m1 == start(m0, sender, fail)
      m2 == IF m1.threw THEN m1 ELSE push(m1, data, fail)
  IN  IF m2.threw
      THEN [m2 EXCEPT !.outcome.error =
              <<"failed to submit transactions with error: ", @>>]
      ELSE [m2 EXCEPT !.outcome = [kind |-> "return", value |-> Undefined]]

\* The payloads that no worker was handed yet.
Fresh == {p \in 1..MaxPayloads : worker.owner[p] = 0}

\* The n smallest of them, in order.
RECURSIVE FirstFresh(_, _)
FirstFresh(n, from) ==
  IF n = 0 THEN <<>>
  ELSE LET p == CHOOSE q \in Fresh : q >= from /\ \A r \in Fresh : r >= from => q <= r
       IN  <<p>> \o FirstFresh(n - 1, p + 1)

\* A call of forSingleAccount, whatever was called before.
ForSingleAccount(sender, n, fail) ==
  /\ worker.pc = "on"
  /\ Len(worker.workers) < MaxWorkers
  /\ n <= Cardinality(Fresh)
  /\ worker' = forSingleAccount(worker, sender, FirstFresh(n, 1), fail)
  /\ UNCHANGED notWorker

\* Whether worker w holds maximumInFlight transactions in flight, by its
\* local sequence number and the last on-chain number it read.
InFlightFull(w) ==
  /\ worker.workers[w].currentNumber # None
  /\ worker.workers[w].currentNumber[1] - worker.workers[w].lastUncommitted[1] >= MaxInFlight

\* Worker w, about to take a payload, starts its local sequence number from
\* the on-chain state of its sender.
Initialize(w) ==
  /\ worker.pc = "on"
  /\ w \in 1..Len(worker.workers)
  /\ worker.workers[w].started
  /\ worker.workers[w].queue # <<>>
  /\ worker.workers[w].currentNumber = None
  /\ LET s == worker.workers[w].sender
     IN  worker' = [worker EXCEPT !.workers[w].currentNumber = Some(worker.onChain[s]),
                                  !.workers[w].lastUncommitted = Some(worker.onChain[s])]
  /\ UNCHANGED notWorker

\* Worker w takes its next payload and gives it its local sequence number,
\* which it then increments.
AssignSequenceNumber(w) ==
  /\ worker.pc = "on"
  /\ w \in 1..Len(worker.workers)
  /\ worker.workers[w].started
  /\ worker.workers[w].queue # <<>>
  /\ worker.workers[w].currentNumber # None
  /\ ~InFlightFull(w)
  /\ LET p == Head(worker.workers[w].queue)
         s == worker.workers[w].sender
     IN  worker' = [worker EXCEPT !.workers[w].queue = Tail(@),
                                  !.workers[w].currentNumber[1] = @ + 1,
                                  !.workers[w].waited = 0,
                                  !.status[p] = "assigned",
                                  !.log[s] = Append(@, [payload |-> p, worker |-> w,
                                                        seq |-> worker.workers[w].currentNumber[1]])]
  /\ UNCHANGED notWorker

\* With maximumInFlight in flight, worker w waits sleepTime and re-evaluates
\* against the on-chain state.
WaitInFlight(w) ==
  /\ worker.pc = "on"
  /\ w \in 1..Len(worker.workers)
  /\ worker.workers[w].queue # <<>>
  /\ InFlightFull(w)
  /\ worker.workers[w].waited < MaxWaitSleeps
  /\ LET s == worker.workers[w].sender
     IN  worker' = [worker EXCEPT !.workers[w].waited = @ + 1,
                                  !.workers[w].lastUncommitted = Some(worker.onChain[s])]
  /\ UNCHANGED notWorker

\* After maxWaitTime with maximumInFlight in flight, worker w restarts its
\* local sequence number to the current on-chain state.
Restart(w) ==
  /\ worker.pc = "on"
  /\ w \in 1..Len(worker.workers)
  /\ worker.workers[w].queue # <<>>
  /\ InFlightFull(w)
  /\ worker.workers[w].waited >= MaxWaitSleeps
  /\ LET s == worker.workers[w].sender
     IN  worker' = [worker EXCEPT !.workers[w].waited = 0,
                                  !.workers[w].currentNumber = Some(worker.onChain[s]),
                                  !.workers[w].lastUncommitted = Some(worker.onChain[s])]
  /\ UNCHANGED notWorker

\* The transaction of payload p is built with its sequence number and signed.
SignPayload(p) ==
  /\ worker.pc = "on"
  /\ worker.status[p] = "assigned"
  /\ worker' = [worker EXCEPT !.status[p] = "signed"]
  /\ UNCHANGED notWorker

\* The signed transaction of payload p is submitted.
SubmitPayload(p) ==
  /\ worker.pc = "on"
  /\ worker.status[p] = "signed"
  /\ worker' = [worker EXCEPT !.status[p] = "submitted"]
  /\ UNCHANGED notWorker

\* The sender of payload p and the sequence number it was given.
SenderOf(p) == worker.workers[worker.owner[p]].sender

SeqOf(p) ==
  LET log == worker.log[SenderOf(p)]
  IN  log[CHOOSE k \in 1..Len(log) : log[k].payload = p].seq

\* The chain executes the transaction of payload p when its sequence number
\* is the account's, and discards it when the number was used before; a
\* transaction with a later number waits.
ExecutePayload(p) ==
  /\ worker.pc = "on"
  /\ worker.status[p] = "submitted"
  /\ SeqOf(p) <= worker.onChain[SenderOf(p)]
  /\ worker' = IF SeqOf(p) = worker.onChain[SenderOf(p)]
               THEN [worker EXCEPT !.status[p] = "executed",
                                   !.onChain[SenderOf(p)] = @ + 1]
               ELSE [worker EXCEPT !.status[p] = "failed"]
  /\ UNCHANGED notWorker

WorkerInit ==
  /\ \E n \in {0, 3} :
       worker = NewManagement([s \in Senders |-> IF s = "alice" THEN n ELSE 3 - n])
  /\ CallsOff
  /\ blk = Off /\ memo = Off /\ pend = Off /\ idx = Off /\ acct = Off
  /\ bcs = Off /\ escrow = Off

WorkerNext ==
  \/ \E sender \in Senders, n \in 0..MaxPayloads :
       \E fail \in FailPoints(n) : ForSingleAccount(sender, n, fail)
  \/ \E w \in 1..MaxWorkers : Initialize(w)
  \/ \E w \in 1..MaxWorkers : AssignSequenceNumber(w)
  \/ \E w \in 1..MaxWorkers : WaitInFlight(w)
  \/ \E w \in 1..MaxWorkers : Restart(w)
  \/ \E p \in 1..MaxPayloads : SignPayload(p)
  \/ \E p \in 1..MaxPayloads : SubmitPayload(p)
  \/ \E p \in 1..MaxPayloads : ExecutePayload(p)

WorkerSpec == WorkerInit /\ [][WorkerNext]_vars

\* The workers of sender s.
WorkersOf(s) == {w \in 1..Len(worker.workers) : worker.workers[w].sender = s}

\* The payloads that were handed to the workers of sender s.
HandedTo(s) == {p \in 1..MaxPayloads : worker.owner[p] \in WorkersOf(s)}

\* The payloads of sender s that were given a sequence number.
AssignedPayloads(s) == {worker.log[s][k].payload : k \in 1..Len(worker.log[s])}

\* C12: a payload is signed only after it was given a sequence number; the
\* numbers given to the payloads of a sender are pairwise different and
\* gap-free from the sender's on-chain number on, whatever is in flight; and
\* when the workers of a sender have nothing left, the N payloads handed to
\* them have got exactly onChain, ..., onChain + N - 1, one each.
C12_SequenceNumbers ==
  worker.pc = "on" =>
    /\ \A p \in 1..MaxPayloads :
         worker.status[p] \in {"signed", "submitted", "executed", "failed"} =>
           \E s \in Senders : p \in AssignedPayloads(s)
    /\ \A s \in Senders :
         LET log == worker.log[s] IN
           /\ \A j, k \in 1..Len(log) :
                j # k => log[j].seq # log[k].seq /\ log[j].payload # log[k].payload
           /\ \A k \in 1..Len(log) : log[k].seq = worker.onChain0[s] + k - 1
           /\ AssignedPayloads(s) \subseteq HandedTo(s)
           /\ (\A w \in WorkersOf(s) : worker.workers[w].queue = <<>>) =>
                /\ AssignedPayloads(s) = HandedTo(s)
                /\ {log[k].seq : k \in 1..Len(log)}
                     = worker.onChain0[s]..(worker.onChain0[s] + Cardinality(HandedTo(s)) - 1)

(***************************************************************************)
(* The memoized lookups: getGasPriceEstimation                             *)
(* (src/src/internal/transaction.ts:62-77) and the coin-type mapping of    *)
(* getAccountCoinAmount (src/src/api/account.ts:825-846).  Both wrap a     *)
(* request in memoizeAsync(fn, key, ttl); memoizeAsync itself is modelled  *)
(* from its description: a cache keyed by string, entries stamped with the *)
(* time they were stored, one shared computation per key while one is in   *)
(* flight.                                                                 *)
(***************************************************************************)
MaxClockSteps == 5

MaxMemoCalls == 4

\* The clock advances in steps of 100 seconds.
ClockStep == 1000 * 100

\* 1000 * 60 * 5, // 5 minutes
MemoTtl == 1000 * 60 * 5

MemoCallers == {1, 2, 3}

Networks == {"testnet"}

FaAddresses == {"0xa"}

notMemo == <<calls, blk, worker, pend, idx, acct, bcs, escrow>>

GasTarget(network) == [path |-> "estimate_gas_price", network |-> network]

\* view({ cedraConfig: this.config, payload: { function: "0x1::coin::paired_coin", ... } })
CoinTarget(network, fa) ==
  [path |-> "view", function |-> "0x1::coin::paired_coin", network |-> network, fa |-> fa]

\* What the node may answer to a request.
Answers(target) ==
  IF target.path = "estimate_gas_price"
  THEN {[gas_estimate |-> 100], [gas_estimate |-> 150]}
  ELSE {[coinType |-> Some("0x1::coin::T")], [coinType |-> None]}

\* The entries of key that are still valid under ttl.
ValidEntries(m, key, ttl) ==
  {e \in m.cache : e.key = key /\ m.now - e.timestamp <= ttl}

\* memoizeAsync(func, key, ttlMs)() called by caller i: a valid entry is
\* returned at once; a computation in flight for the key is joined;
\* otherwise func is started.  (origin is an observation of the run, never
\* read by the code: the request a value was computed by.)
memoizeAsync(m, i, target, key, ttl) ==
  IF ValidEntries(m, key, ttl) # {}
  THEN [m EXCEPT !.callers[i] =
          [pc |-> "done", key |-> key, target |-> target, how |-> "cache",
           result |-> Some((CHOOSE e \in ValidEntries(m, key, ttl) : TRUE).value),
           origin |-> Some((CHOOSE e \in ValidEntries(m, key, ttl) : TRUE).origin)]]
  ELSE IF \E r \in m.pending : r.key = key
  THEN [m EXCEPT !.callers[i] =
          [pc |-> "waiting", key |-> key, target |-> target, how |-> "shared",
           result |-> None, origin |-> None]]
  ELSE [m EXCEPT !.callers[i] =
          [pc |-> "waiting", key |-> key, target |-> target, how |-> "network",
           result |-> None, origin |-> None],
                 !.pending = @ \cup {[key |-> key, target |-> target]},
                 !.sent[target] = @ + 1]
\* Variant: the entry lives ten times as long.
getGasPriceEstimation_LongTtl(m, i, network) ==
  memoizeAsync(m, i, GasTarget(network),
               [kind |-> "gas-price", network |-> network], 10 * MemoTtl)

\* memoizeAsync(fetch estimate_gas_price, `gas-price-${network}`, 1000 * 60 * 5)()
getGasPriceEstimation(m, i, network) ==
  memoizeAsync(m, i, GasTarget(network),
               [kind |-> "gas-price", network |-> network], MemoTtl)

\* memoizeAsync(view paired_coin, `coin-mapping-${faMetadataAddress}`, 1000 * 60 * 5)()
getCoinMapping(m, i, network, fa) ==
  memoizeAsync(m, i, CoinTarget(network, fa), [kind |-> "coin-mapping", fa |-> fa], MemoTtl)

CanCall(i) ==
  /\ memo.pc = "on"
  /\ memo.callers[i].pc # "waiting"
  /\ memo.ncalls < MaxMemoCalls

CallGasPrice(i, network) ==
  /\ CanCall(i)
  /\ memo' = [getGasPriceEstimation(memo, i, network) EXCEPT !.ncalls = @ + 1,
                                                                  !.called[i] = @ + 1]
  /\ UNCHANGED notMemo

CallCoinMapping(i, network, fa) ==
  /\ CanCall(i)
  /\ memo' = [getCoinMapping(memo, i, network, fa) EXCEPT !.ncalls = @ + 1,
                                                      !.called[i] = @ + 1]
  /\ UNCHANGED notMemo

\* The request r is answered: the value is stored with the present time and
\* every caller waiting for the key gets it.
MemoRespond(r, value) ==
  /\ memo.pc = "on"
  /\ r \in memo.pending
  /\ memo' = [memo EXCEPT
       !.pending = @ \ {r},
       !.cache = {e \in @ : e.key # r.key}
                   \cup {[key |-> r.key, value |-> value, timestamp |-> memo.now,
                          origin |-> r.target]},
       !.callers = [i \in MemoCallers |->
                      IF @[i].pc = "waiting" /\ @[i].key = r.key
                      THEN [@[i] EXCEPT !.pc = "done", !.result = Some(value),
                                        !.origin = Some(r.target)]
                      ELSE @[i]]]
  /\ UNCHANGED notMemo

\* The gas-price request r fails: nothing is stored and the callers waiting
\* for the key fail.  (The coin-mapping function catches its errors.)
MemoFail(r) ==
  /\ memo.pc = "on"
  /\ r \in memo.pending
  /\ r.target.path = "estimate_gas_price"
  /\ memo' = [memo EXCEPT
       !.pending = @ \ {r},
       !.callers = [i \in MemoCallers |->
                      IF @[i].pc = "waiting" /\ @[i].key = r.key
                      THEN [@[i] EXCEPT !.pc = "failed"]
                      ELSE @[i]]]
  /\ UNCHANGED notMemo

MemoTick ==
  /\ memo.pc = "on"
  /\ memo.now < MaxClockSteps * ClockStep
  /\ memo' = [memo EXCEPT !.now = @ + ClockStep]
  /\ UNCHANGED notMemo

MemoTargets ==
  {GasTarget(n) : n \in Networks} \cup {CoinTarget(n, fa) : n \in Networks, fa \in FaAddresses}

MemoInit ==
  /\ memo = [pc |-> "on", now |-> 0, cache |-> {}, pending |-> {},
             sent |-> [t \in MemoTargets |-> 0], ncalls |-> 0,
             called |-> [i \in MemoCallers |-> 0],
             callers |-> [i \in MemoCallers |->
                            [pc |-> "idle", key |-> None, target |-> None,
                             how |-> "none", result |-> None, origin |-> None]]]
  /\ CallsOff
  /\ blk = Off /\ worker = Off /\ pend = Off /\ idx = Off /\ acct = Off
  /\ bcs = Off /\ escrow = Off

MemoNext ==
  \/ \E i \in MemoCallers, n \in Networks : CallGasPrice(i, n)
  \/ \E i \in MemoCallers, n \in Networks, fa \in FaAddresses : CallCoinMapping(i, n, fa)
  \/ \E r \in memo.pending : \E v \in Answers(r.target) : MemoRespond(r, v)
  \/ \E r \in memo.pending : MemoFail(r)
  \/ MemoTick

MemoSpec == MemoInit /\ [][MemoNext]_vars

\* The entry stored for a key is older, or younger, than the time to live.
Older(e) == memo.now - e.timestamp > MemoTtl

Younger(e) == memo.now - e.timestamp < MemoTtl

\* C14: a call for a key whose entry is younger than 5 minutes returns the
\* stored value, sends no request and leaves the entry and its time stamp
\* as they are; a call for a key whose entry is older than 5 minutes, with
\* no request for it in flight, sends a new request.
C14_ExpiresByTime ==
  [][\A i \in MemoCallers :
       (memo.pc = "on" /\ memo'.called[i] # memo.called[i]) =>
         LET c == memo'.callers[i]
         IN  /\ memo'.cache = memo.cache
             /\ \A e \in memo.cache :
                  (e.key = c.key /\ Younger(e)) =>
                    /\ c.pc = "done"
                    /\ c.result = Some(e.value)
                    /\ memo'.sent = memo.sent
             /\ \A e \in memo.cache :
                  (e.key = c.key /\ Older(e) /\ ~ \E r \in memo.pending : r.target = c.target) =>
                    /\ c.pc = "waiting"
                    /\ memo'.sent[c.target] = memo.sent[c.target] + 1]_vars

\* One caller was served from the stored gas price, and later, the entry
\* having expired, another one fetched it anew: two requests in all, the
\* present entry stored more than 5 minutes after the start.
C14_Witness ==
  /\ memo.pc = "on"
  /\ memo.sent[GasTarget("testnet")] = 2
  /\ \E i \in MemoCallers : memo.callers[i].pc = "done" /\ memo.callers[i].how = "cache"
  /\ \E e \in memo.cache : /\ e.key = [kind |-> "gas-price", network |-> "testnet"]
                           /\ e.timestamp > MemoTtl

(***************************************************************************)
(* The same cache used by clients of two networks: each caller is a client *)
(* whose configuration names its network, and a request goes to the node   *)
(* of the client that makes it.                                            *)
(***************************************************************************)
ClientNetworks == {"testnet", "mainnet"}

\* new Cedra(new CedraConfig({ network })) of caller i.
ClientNetwork(i) == IF i = 1 THEN "testnet" ELSE "mainnet"

IsoTargets ==
  {GasTarget(n) : n \in ClientNetworks}
    \cup {CoinTarget(n, fa) : n \in ClientNetworks, fa \in FaAddresses}

IsoInit ==
  /\ memo = [pc |-> "on", now |-> 0, cache |-> {}, pending |-> {},
             sent |-> [t \in IsoTargets |-> 0], ncalls |-> 0,
             called |-> [i \in MemoCallers |-> 0],
             callers |-> [i \in MemoCallers |->
                            [pc |-> "idle", key |-> None, target |-> None,
                             how |-> "none", result |-> None, origin |-> None]]]
  /\ CallsOff
  /\ blk = Off /\ worker = Off /\ pend = Off /\ idx = Off /\ acct = Off
  /\ bcs = Off /\ escrow = Off

IsoNext ==
  \/ \E i \in MemoCallers : CallGasPrice(i, ClientNetwork(i))
  \/ \E i \in MemoCallers, fa \in FaAddresses : CallCoinMapping(i, ClientNetwork(i), fa)
  \/ \E r \in memo.pending : \E v \in Answers(r.target) : MemoRespond(r, v)
  \/ \E r \in memo.pending : MemoFail(r)
  \/ MemoTick

IsoSpec == IsoInit /\ [][IsoNext]_vars

\* C28: the value a client gets was computed by a request to the network of
\* that client, for the gas price and for the coin mapping alike.
C28_Isolated ==
  memo.pc = "on" =>
    \A i \in MemoCallers :
      memo.callers[i].pc = "done" =>
        memo.callers[i].origin[1].network = memo.callers[i].target.network

(***************************************************************************)
(* isTransactionPending (src/src/internal/transaction.ts:134-148): one     *)
(* fetch by hash, then a boolean or the fetch's error.                     *)
(***************************************************************************)
notPend == <<calls, blk, worker, memo, idx, acct, bcs, escrow>>

\* Every transaction response type: pending, user, and the others.
PendTransactions ==
  Transactions \cup
  {[kind |-> "txn", type |-> t] : t \in {"genesis_transaction", "block_metadata_transaction",
                        "state_checkpoint_transaction", "validator_transaction",
                        "block_epilogue_transaction"}}

\* What a fetch may reject with: an API error, an error without status, an
\* object that is no CedraApiError but has a status, or undefined.
PendRejections ==
  {CedraApiError(st) : st \in ApiStatuses}
    \cup {NetworkError, [kind |-> "object", status |-> 404],
          [kind |-> "object", status |-> 500], Undefined}

\* e?.status
StatusOf(e) == IF "status" \in DOMAIN e THEN Some(e.status) ELSE None
\* Variant: every failed fetch counts as pending.
isTransactionPending_AnyError(p, r) ==
  IF r.kind = "txn"
  THEN Return(p, r.type = "pending_transaction")
  ELSE Return(p, TRUE)

\* try { return transaction.type === Pending }
\* catch (e) { if (e?.status === 404) return true; throw e }
isTransactionPending(p, r) ==
  IF r.kind = "txn"
  THEN Return(p, r.type = "pending_transaction")
  ELSE IF StatusOf(r) = Some(404)
  THEN Return(p, TRUE)
  ELSE Throw(p, r)

\* isTransactionPending is called: getTransactionByHash sends its request.
PendCall ==
  /\ pend.pc = "ready"
  /\ pend' = [pend EXCEPT !.pc = "fetching"]
  /\ UNCHANGED notPend

\* The fetch resolves with a transaction or rejects.
PendRespond(r) ==
  /\ pend.pc = "fetching"
  /\ pend' = isTransactionPending([pend EXCEPT !.response = r], r)
  /\ UNCHANGED notPend

PendInit ==
  /\ \E h \in {"0x1a", "0x2b", "0x3c"}, n \in {"testnet", "devnet"} :
       pend = [pc |-> "ready", transactionHash |-> h, network |-> n,
               response |-> Undefined, outcome |-> NoOutcome]
  /\ CallsOff
  /\ blk = Off /\ worker = Off /\ memo = Off /\ idx = Off /\ acct = Off
  /\ bcs = Off /\ escrow = Off

PendNext ==
  \/ PendCall
  \/ \E r \in PendTransactions \cup PendRejections : PendRespond(r)

PendSpec == PendInit /\ [][PendNext]_vars

\* C15: isTransactionPending returns true for a pending transaction and for a
\* fetch that failed with status 404, false for a transaction of any other
\* type, and throws the fetch's error itself when its status is not 404.
C15_PendingAnswer ==
  pend.pc = "done" =>
    LET r == pend.response
    IN  /\ (r.kind = "txn" /\ r.type = "pending_transaction") => Returned(pend, TRUE)
        /\ (r.kind = "txn" /\ r.type # "pending_transaction") => Returned(pend, FALSE)
        /\ (r.kind # "txn" /\ StatusOf(r) = Some(404)) => Returned(pend, TRUE)
        /\ (r.kind # "txn" /\ StatusOf(r) # Some(404)) => Threw(pend, r)

\* A fetch that failed with status 500 was thrown on.
C15_Witness ==
  /\ pend.pc = "done"
  /\ pend.response = CedraApiError(500)
  /\ Threw(pend, CedraApiError(500))

(***************************************************************************)
(* waitForIndexer (src/src/internal/transaction.ts:306-342): poll the      *)
(* indexer's last success version every 200 ms for at most 3 seconds.      *)
(* Time is in milliseconds since the call.                                 *)
(***************************************************************************)
timeoutMilliseconds == 3000

IndexerSleepMs == 200

notIdx == <<calls, blk, worker, memo, pend, acct, bcs, escrow>>

\* How long a fetch may take.
FetchLatencies == {10, 400, 3200}

TimeoutError == [kind |-> "Error", message |-> "waitForLastSuccessIndexerVersionSync timeout"]

\* if (processorType === undefined) getIndexerLastSuccessVersion
\* else getProcessorStatus({ processorType }).last_success_version
IndexerQuery(processorType) ==
  IF processorType = None
  THEN [fn |-> "getIndexerLastSuccessVersion"]
  ELSE [fn |-> "getProcessorStatus", processorType |-> processorType[1]]
\* Variant: the timeout is checked with >=.
IdxLoopHead_AtLimit(x) ==
  IF x.indexerVersion < x.minimumLedgerVersion
  THEN IF x.now - x.startTime >= timeoutMilliseconds
       THEN Throw(x, TimeoutError)
       ELSE [x EXCEPT !.pc = "fetching", !.issued = @ + 1, !.fetchedAt = x.now,
                      !.query = IndexerQuery(x.processorType)]
  ELSE Return(x, Undefined)

\* while (indexerVersion < minimumLedgerVersion) {
\*   if (now - startTime > timeoutMilliseconds) throw ...; fetch
IdxLoopHead(x) ==
  IF x.indexerVersion < x.minimumLedgerVersion
  THEN IF x.now - x.startTime > timeoutMilliseconds
       THEN Throw(x, TimeoutError)
       ELSE [x EXCEPT !.pc = "fetching", !.issued = @ + 1, !.fetchedAt = x.now,
                      !.query = IndexerQuery(x.processorType)]
  ELSE Return(x, Undefined)

\* indexerVersion = fetched; if (indexerVersion >= minimum) break; sleep(200)
IdxAfterFetch(x, v) ==
  LET x1 == [x EXCEPT !.indexerVersion = v, !.lastFetched = Some(v)]
  IN  IF v >= x.minimumLedgerVersion
      THEN Return(x1, Undefined)
      ELSE [x1 EXCEPT !.pc = "sleeping", !.sleeps = Append(@, IndexerSleepMs)]

IdxCall ==
  /\ idx.pc = "ready"
  /\ idx' = IdxLoopHead([idx EXCEPT !.indexerVersion = -1, !.startTime = idx.now])
  /\ UNCHANGED notIdx

\* getIndexerLastSuccessVersion, or getProcessorStatus(...).last_success_version,
\* answers v after latency ms.
IdxRespond(v, latency) ==
  /\ idx.pc = "fetching"
  /\ idx' = IdxAfterFetch([idx EXCEPT !.now = @ + latency], v)
  /\ UNCHANGED notIdx

\* The fetch rejects: the error leaves waitForIndexer.
IdxReject(e, latency) ==
  /\ idx.pc = "fetching"
  /\ idx' = Throw([idx EXCEPT !.now = @ + latency], e)
  /\ UNCHANGED notIdx

\* The sleep ends, 200 ms or a little more after it began.
IdxWake(late) ==
  /\ idx.pc = "sleeping"
  /\ idx' = IdxLoopHead([idx EXCEPT !.now = @ + idx.sleeps[Len(idx.sleeps)] + late])
  /\ UNCHANGED notIdx

IdxInit ==
  /\ \E m \in {1, 5}, pt \in {None, Some("default_processor")} :
       idx = [pc |-> "ready", minimumLedgerVersion |-> m, processorType |-> pt,
              now |-> 0, startTime |-> 0, indexerVersion |-> -1,
              issued |-> 0, fetchedAt |-> 0, lastFetched |-> None, query |-> Undefined,
              sleeps |-> <<>>, outcome |-> NoOutcome]
  /\ CallsOff
  /\ blk = Off /\ worker = Off /\ memo = Off /\ pend = Off /\ acct = Off
  /\ bcs = Off /\ escrow = Off

IdxNext ==
  \/ IdxCall
  \/ \E v \in {0, 4, 5, 9}, l \in FetchLatencies : IdxRespond(v, l)
  \/ \E e \in {CedraApiError(500), NetworkError}, l \in FetchLatencies : IdxReject(e, l)
  \/ \E late \in {0, 40} : IdxWake(late)

IdxSpec == IdxInit /\ [][IdxNext]_vars

\* C16: waitForIndexer returns only with a fetched version >= the minimum as
\* its last fetch; it throws the timeout error only when more than 3000 ms
\* have passed, and then without another fetch; no fetch begins later than
\* 3000 ms after the call; and every sleep between two fetches is 200 ms.
C16_IndexerWait ==
  idx.pc \notin {"off", "ready"} =>
    /\ (idx.pc = "done" /\ idx.outcome.kind = "return") =>
         /\ idx.lastFetched # None
         /\ idx.lastFetched[1] >= idx.minimumLedgerVersion
    /\ Threw(idx, TimeoutError) =>
         /\ idx.now - idx.startTime > timeoutMilliseconds
         /\ idx.lastFetched # None
         /\ idx.lastFetched[1] < idx.minimumLedgerVersion
         /\ Len(idx.sleeps) = idx.issued
    /\ idx.pc = "fetching" =>
         /\ idx.fetchedAt - idx.startTime <= timeoutMilliseconds
         /\ idx.fetchedAt = idx.now
         /\ idx.processorType = None => idx.query.fn = "getIndexerLastSuccessVersion"
         /\ idx.processorType # None =>
              idx.query = [fn |-> "getProcessorStatus", processorType |-> idx.processorType[1]]
         /\ Len(idx.sleeps) = idx.issued - 1
    /\ idx.pc = "sleeping" =>
         /\ Len(idx.sleeps) = idx.issued
         /\ idx.lastFetched[1] < idx.minimumLedgerVersion
    /\ \A k \in 1..Len(idx.sleeps) : idx.sleeps[k] = 200

\* After five fetches of 400 ms and five sleeps of 200 ms exactly 3000 ms
\* have passed and a sixth fetch has begun.
C16_Witness ==
  /\ idx.pc = "fetching"
  /\ idx.issued = 6
  /\ idx.fetchedAt = 3000

(***************************************************************************)
(* SingleKeyAccount (src/src/account/SingleKeyAccount.ts).  The keys,      *)
(* signatures, authentication keys and addresses it is built from are      *)
(* modelled from their description as an ideal signature scheme: a public  *)
(* key names its private key, a signature records who signed what.         *)
(***************************************************************************)
notAcct == <<calls, blk, worker, memo, pend, idx, bcs, escrow>>

Seeds == {1, 2}

\* SigningSchemeInput.Ed25519 = 0, SigningSchemeInput.Secp256k1Ecdsa = 2
SchemeEd25519 == 0

SchemeSecp256k1Ecdsa == 2

\* The schemes a caller may pass: omitted, the two supported, two others.
SchemeInputs == {None, Some(0), Some(2), Some(1), Some(3)}

Ed25519PrivateKey(seed) == [kind |-> "Ed25519PrivateKey", seed |-> seed]

Secp256k1PrivateKey(seed) == [kind |-> "Secp256k1PrivateKey", seed |-> seed]

PrivateKeys == {Ed25519PrivateKey(k) : k \in Seeds} \cup {Secp256k1PrivateKey(k) : k \in Seeds}

\* privateKey.publicKey()
PublicKeyOf(privateKey) ==
  [kind |-> IF privateKey.kind = "Ed25519PrivateKey"
            THEN "Ed25519PublicKey" ELSE "Secp256k1PublicKey",
   of |-> privateKey.seed]

\* new AnyPublicKey(publicKey)
AnyPublicKey(publicKey) == [kind |-> "AnyPublicKey", publicKey |-> publicKey]

\* anyPublicKey.authKey().derivedAddress(): the address of the hash of the
\* serialized key and the SingleKey scheme byte.
DerivedAddress(anyPublicKey) ==
  [kind |-> "AccountAddress",
   data |-> [hash |-> anyPublicKey.publicKey, scheme |-> "SingleKey"]]

\* The address of a legacy Ed25519 account derived from its key.
LegacyAddress(privateKey) ==
  [kind |-> "AccountAddress",
   data |-> [hash |-> PublicKeyOf(privateKey), scheme |-> "Ed25519"]]

\* Address inputs: an AccountAddress, or its text.
AddressText(data) == [kind |-> "string", text |-> data]

AccountAddress(hex) == [kind |-> "AccountAddress", data |-> [hex |-> hex]]

\* AccountAddress.from(input)
AccountAddressFrom(input) ==
  IF input.kind = "string" THEN AccountAddress(input.text) ELSE input

\* The address argument of the constructor: omitted, empty text, or an address.
AddressInputs ==
  {Undefined, AddressText(""), AddressText("0xcafe"), AccountAddress("0xcafe"),
   AccountAddress("0xbeef")}

\* JavaScript truthiness of the address argument.
Truthy(address) ==
  /\ address # Undefined
  /\ ~ (address.kind = "string" /\ address.text = "")
\* Variant: the address is always derived from the key.
SingleKeyAccount_AlwaysDerived(privateKey, address) ==
  [kind |-> "SingleKeyAccount",
   privateKey |-> privateKey,
   publicKey |-> AnyPublicKey(PublicKeyOf(privateKey)),
   accountAddress |-> DerivedAddress(AnyPublicKey(PublicKeyOf(privateKey)))]

\* constructor({ privateKey, address })
SingleKeyAccount(privateKey, address) ==
  [kind |-> "SingleKeyAccount",
   privateKey |-> privateKey,
   publicKey |-> AnyPublicKey(PublicKeyOf(privateKey)),
   accountAddress |-> IF Truthy(address)
                      THEN AccountAddressFrom(address)
                      ELSE DerivedAddress(AnyPublicKey(PublicKeyOf(privateKey)))]

\* An Ed25519Account: its key and its address, derived the legacy way or given.
Ed25519Accounts ==
  UNION {{[kind |-> "Ed25519Account", privateKey |-> Ed25519PrivateKey(k), accountAddress |-> a] :
            a \in {LegacyAddress(Ed25519PrivateKey(k)), AccountAddress("0xbeef")}} :
         k \in Seeds}

\* static fromEd25519Account(account)
fromEd25519Account(account) == SingleKeyAccount(account.privateKey, account.accountAddress)

UnsupportedScheme(scheme) ==
  [kind |-> "Error", message |-> "Unsupported signature scheme", scheme |-> scheme]

DerivationPaths == {"m/44'/637'/0'/0'/0'", "m/44'/637'/1'/0'/0'"}

Mnemonics == {"shoot island position soft burden budget tooth cruel issue economy destroy above"}

\* The key material a path and mnemonic lead to.
DerivedSeed(path, mnemonic) == IF path = "m/44'/637'/0'/0'/0'" THEN 1 ELSE 2
\* Variant: an unknown scheme falls back to Ed25519.
SchemeKey_Fallback(scheme, seed) ==
  LET sch == Nullish(scheme, SchemeEd25519)
  IN  IF sch = SchemeSecp256k1Ecdsa
      THEN Some(Secp256k1PrivateKey(seed))
      ELSE Some(Ed25519PrivateKey(seed))

\* const { scheme = SigningSchemeInput.Ed25519 } = args; switch (scheme) ...
\* The private key of the scheme made from seed, or None for the default branch.
SchemeKey(scheme, seed) ==
  LET sch == Nullish(scheme, SchemeEd25519)
  IN  IF sch = SchemeEd25519 THEN Some(Ed25519PrivateKey(seed))
      ELSE IF sch = SchemeSecp256k1Ecdsa THEN Some(Secp256k1PrivateKey(seed))
      ELSE None

\* The state after a static constructor: the account, or the error thrown.
Made(how, key) ==
  IF key = None
  THEN [pc |-> "threw", how |-> how, account |-> Undefined, keys |-> {},
        error |-> UnsupportedScheme(Nullish(how.scheme, SchemeEd25519)), last |-> Undefined]
  ELSE [pc |-> "account", how |-> how, account |-> SingleKeyAccount(key[1], Undefined),
        keys |-> {key[1]}, error |-> Undefined, last |-> Undefined]

\* new SingleKeyAccount({ privateKey, address })
Construct(privateKey, address) ==
  /\ acct.pc = "none"
  /\ acct' = [pc |-> "account",
              how |-> [op |-> "constructor", privateKey |-> privateKey, address |-> address],
              account |-> SingleKeyAccount(privateKey, address),
              keys |-> {}, error |-> Undefined, last |-> Undefined]
  /\ UNCHANGED notAcct

\* SingleKeyAccount.generate({ scheme }); seed is the randomness drawn.
Generate(scheme, seed) ==
  /\ acct.pc = "none"
  /\ acct' = Made([op |-> "generate", scheme |-> scheme], SchemeKey(scheme, seed))
  /\ UNCHANGED notAcct

\* SingleKeyAccount.fromDerivationPath({ scheme, path, mnemonic })
FromDerivationPath(scheme, path, mnemonic) ==
  /\ acct.pc = "none"
  /\ acct' = Made([op |-> "fromDerivationPath", scheme |-> scheme, path |-> path,
                   mnemonic |-> mnemonic],
                  SchemeKey(scheme, DerivedSeed(path, mnemonic)))
  /\ UNCHANGED notAcct

\* SingleKeyAccount.fromEd25519Account(account)
FromEd25519Account(account) ==
  /\ acct.pc = "none"
  /\ acct' = [pc |-> "account", how |-> [op |-> "fromEd25519Account", source |-> account],
              account |-> fromEd25519Account(account),
              keys |-> {}, error |-> Undefined, last |-> Undefined]
  /\ UNCHANGED notAcct

\* The messages and transactions given to the account.
Messages == {[kind |-> "bytes", hex |-> "0x00"], [kind |-> "bytes", hex |-> "0x01"]}

RawTransactions ==
  {[kind |-> "SimpleTransaction", sequence_number |-> 0, feePayer |-> FALSE],
   [kind |-> "SimpleTransaction", sequence_number |-> 1, feePayer |-> TRUE]}

\* The signing message of a transaction: a domain separator and the
\* serialized transaction.
generateSigningMessageForTransaction(transaction) ==
  [kind |-> "bytes",
   salt |-> IF transaction.feePayer
            THEN "CEDRA::RawTransactionWithData" ELSE "CEDRA::RawTransaction",
   body |-> transaction]

\* privateKey.sign(message)
PrivateKeySign(privateKey, message) ==
  [kind |-> IF privateKey.kind = "Ed25519PrivateKey"
            THEN "Ed25519Signature" ELSE "Secp256k1Signature",
   signer |-> privateKey.seed, message |-> message, bits |-> "intact"]

\* new AnySignature(signature)
AnySignature(signature) == [kind |-> "AnySignature", signature |-> signature]

\* anyPublicKey.verifySignature({ message, signature }): true for an intact
\* signature of the message by the key, false for anything else.
AnyPublicKeyVerify(anyPublicKey, message, signature) ==
  /\ signature.kind = "AnySignature"
  /\ signature.signature.kind =
       (IF anyPublicKey.publicKey.kind = "Ed25519PublicKey"
        THEN "Ed25519Signature" ELSE "Secp256k1Signature")
  /\ signature.signature.bits = "intact"
  /\ signature.signature.signer = anyPublicKey.publicKey.of
  /\ signature.signature.message = message

\* new AccountAuthenticatorSingleKey(publicKey, signature)
AccountAuthenticatorSingleKey(publicKey, signature) ==
  [kind |-> "AccountAuthenticatorSingleKey", public_key |-> publicKey,
   signature |-> signature]

\* sign(message)
sign(account, message) == AnySignature(PrivateKeySign(account.privateKey, message))
\* Variant: the transaction itself is signed, not its signing message.
signTransaction_Raw(account, transaction) == sign(account, transaction)

\* signTransaction(transaction)
signTransaction(account, transaction) ==
  sign(account, generateSigningMessageForTransaction(transaction))

\* signWithAuthenticator(message)
signWithAuthenticator(account, message) ==
  AccountAuthenticatorSingleKey(account.publicKey, sign(account, message))

\* signTransactionWithAuthenticator(transaction)
signTransactionWithAuthenticator(account, transaction) ==
  AccountAuthenticatorSingleKey(account.publicKey, signTransaction(account, transaction))
\* Variant: the signature is checked against the key that made it.
verifySignature_OwnSigner(account, message, signature) ==
  /\ signature.kind = "AnySignature"
  /\ signature.signature.kind \in {"Ed25519Signature", "Secp256k1Signature"}
  /\ signature.signature.bits = "intact"
  /\ signature.signature.message = message

\* verifySignature({ message, signature })
verifySignature(account, message, signature) ==
  AnyPublicKeyVerify(account.publicKey, message, signature)

\* The signatures offered for verification: made by any key over any message,
\* the same with a bit flipped, and one that is no signature at all.
CandidateSignatures ==
  LET made == {sign(SingleKeyAccount(k, Undefined), m) : k \in PrivateKeys, m \in Messages}
  IN  made \cup {[sg EXCEPT !.signature.bits = "flipped"] : sg \in made}
           \cup {AnySignature([kind |-> "malformed"])}

Sign(m) ==
  /\ acct.pc = "account"
  /\ acct' = [acct EXCEPT !.last = [op |-> "sign", message |-> m,
                                    result |-> sign(acct.account, m)]]
  /\ UNCHANGED notAcct

SignTransaction(tx) ==
  /\ acct.pc = "account"
  /\ acct' = [acct EXCEPT !.last = [op |-> "signTransaction", transaction |-> tx,
                                    result |-> signTransaction(acct.account, tx)]]
  /\ UNCHANGED notAcct

SignWithAuthenticator(m) ==
  /\ acct.pc = "account"
  /\ acct' = [acct EXCEPT !.last = [op |-> "signWithAuthenticator", message |-> m,
                                    result |-> signWithAuthenticator(acct.account, m)]]
  /\ UNCHANGED notAcct

SignTransactionWithAuthenticator(tx) ==
  /\ acct.pc = "account"
  /\ acct' = [acct EXCEPT !.last =
                [op |-> "signTransactionWithAuthenticator", transaction |-> tx,
                 result |-> signTransactionWithAuthenticator(acct.account, tx)]]
  /\ UNCHANGED notAcct

VerifySignature(m, sg) ==
  /\ acct.pc = "account"
  /\ acct' = [acct EXCEPT !.last = [op |-> "verifySignature", message |-> m,
                                    signature |-> sg,
                                    result |-> verifySignature(acct.account, m, sg)]]
  /\ UNCHANGED notAcct

AcctInit ==
  /\ acct = [pc |-> "none"]
  /\ CallsOff
  /\ blk = Off /\ worker = Off /\ memo = Off /\ pend = Off /\ idx = Off
  /\ bcs = Off /\ escrow = Off

AcctNext ==
  \/ \E k \in PrivateKeys, a \in AddressInputs : Construct(k, a)
  \/ \E sch \in SchemeInputs, seed \in Seeds : Generate(sch, seed)
  \/ \E sch \in SchemeInputs, path \in DerivationPaths, mn \in Mnemonics :
       FromDerivationPath(sch, path, mn)
  \/ \E e \in Ed25519Accounts : FromEd25519Account(e)
  \/ \E m \in Messages : Sign(m)
  \/ \E tx \in RawTransactions : SignTransaction(tx)
  \/ \E m \in Messages : SignWithAuthenticator(m)
  \/ \E tx \in RawTransactions : SignTransactionWithAuthenticator(tx)
  \/ \E m \in Messages, sg \in CandidateSignatures : VerifySignature(m, sg)

AcctSpec == AcctInit /\ [][AcctNext]_vars

\* The last operation on the account was op.
Did(op) == acct.pc = "account" /\ acct.last # Undefined /\ acct.last.op = op

\* C17: an account constructed with an address has that address, not the one
\* derived from its key; constructed without, it has the address derived
\* from the AnyPublicKey of its private key's public key; and
\* fromEd25519Account keeps the source's address and private key.
C17_Address ==
  acct.pc = "account" =>
    /\ (acct.how.op = "constructor" /\ Truthy(acct.how.address)) =>
         acct.account.accountAddress = AccountAddressFrom(acct.how.address)
    /\ (acct.how.op = "constructor" /\ acct.how.address = Undefined) =>
         /\ acct.account.publicKey = AnyPublicKey(PublicKeyOf(acct.how.privateKey))
         /\ acct.account.accountAddress = DerivedAddress(acct.account.publicKey)
    /\ acct.how.op = "fromEd25519Account" =>
         /\ acct.account.accountAddress = acct.how.source.accountAddress
         /\ acct.account.privateKey = acct.how.source.privateKey

\* An account made from an Ed25519 account with its legacy address, which is
\* not the address a single-key account derives from the same key.
C17_Witness ==
  /\ acct.pc = "account"
  /\ acct.how.op = "fromEd25519Account"
  /\ acct.account.accountAddress = LegacyAddress(Ed25519PrivateKey(1))
  /\ acct.account.accountAddress # DerivedAddress(acct.account.publicKey)

\* C18: generate and fromDerivationPath, given a scheme that is neither
\* Ed25519 nor Secp256k1Ecdsa, throw an error naming that scheme and make
\* neither key nor account; given no scheme they make an Ed25519 key.
C18_UnsupportedScheme ==
  (acct.pc \in {"account", "threw"} /\ acct.how.op \in {"generate", "fromDerivationPath"}) =>
    /\ acct.how.scheme \notin {None, Some(SchemeEd25519), Some(SchemeSecp256k1Ecdsa)} =>
         /\ acct.pc = "threw"
         /\ acct.error.kind = "Error"
         /\ acct.error.scheme = acct.how.scheme[1]
         /\ acct.account = Undefined
         /\ acct.keys = {}
    /\ acct.how.scheme = None =>
         /\ acct.pc = "account"
         /\ acct.account.privateKey.kind = "Ed25519PrivateKey"
    /\ acct.how.scheme = Some(SchemeSecp256k1Ecdsa) =>
         /\ acct.pc = "account"
         /\ acct.account.privateKey.kind = "Secp256k1PrivateKey"

\* fromDerivationPath threw for scheme 3.
C18_Witness ==
  /\ acct.pc = "threw"
  /\ acct.how.op = "fromDerivationPath"
  /\ acct.how.scheme = Some(3)
  /\ acct.error = UnsupportedScheme(3)

\* C19: signTransaction(tx) is sign of the signing message of tx, and the two
\* authenticator operations return an AccountAuthenticatorSingleKey with the
\* account's AnyPublicKey and the signature sign(m), or signTransaction(tx).
C19_SignDelegation ==
  /\ Did("signTransaction") =>
       acct.last.result =
         sign(acct.account, generateSigningMessageForTransaction(acct.last.transaction))
  /\ Did("signWithAuthenticator") =>
       /\ acct.last.result.kind = "AccountAuthenticatorSingleKey"
       /\ acct.last.result.public_key = acct.account.publicKey
       /\ acct.last.result.public_key = AnyPublicKey(PublicKeyOf(acct.account.privateKey))
       /\ acct.last.result.signature = sign(acct.account, acct.last.message)
  /\ Did("signTransactionWithAuthenticator") =>
       /\ acct.last.result.kind = "AccountAuthenticatorSingleKey"
       /\ acct.last.result.public_key = acct.account.publicKey
       /\ acct.last.result.signature =
            sign(acct.account, generateSigningMessageForTransaction(acct.last.transaction))

\* A fee-payer transaction signed with authenticator by a Secp256k1 account.
C19_Witness ==
  /\ Did("signTransactionWithAuthenticator")
  /\ acct.last.transaction.feePayer
  /\ acct.account.privateKey.kind = "Secp256k1PrivateKey"
  /\ acct.last.result.signature.signature.message.salt = "CEDRA::RawTransactionWithData"

\* C20: verifySignature of a message and a signature is true exactly when the
\* signature is the account's own sign of that message; another message,
\* another key, a flipped bit or a malformed signature give false.
C20_VerificationSound ==
  Did("verifySignature") =>
    /\ acct.last.result \in BOOLEAN
    /\ acct.last.result = (acct.last.signature = sign(acct.account, acct.last.message))

\* The account's own signature verified, on an account whose address was given.
C20_Witness ==
  /\ Did("verifySignature")
  /\ acct.last.result = TRUE
  /\ acct.last.signature = sign(acct.account, acct.last.message)
  /\ acct.how.op = "constructor"
  /\ acct.how.address = AccountAddress("0xcafe")

(***************************************************************************)
(* BCS: the Serializer and Deserializer behind bcsToBytes and deserialize  *)
(* (src/unnamed/part_005:40-41, 49, 86, 89-90), modelled from the          *)
(* description of the encodings.  Bytes are numbers 0..255; a value        *)
(* carries its type t and its content (int, bool, bytes or items), with    *)
(* the element type of a vector or option in "of" and the field types of   *)
(* a struct in "fields".                                                   *)
(***************************************************************************)
MaxRawLen == 3

notBcs == <<calls, blk, worker, memo, pend, idx, acct, escrow>>

DecodeError(why) == [ok |-> FALSE, why |-> why]

Decoded(value, rest) == [ok |-> TRUE, value |-> value, rest |-> rest]

\* serializeU32AsUleb128: seven bits a byte, low group first, the high bit
\* set on every byte but the last.
RECURSIVE Uleb128(_)
Uleb128(v) ==
  IF v \div 128 = 0 THEN <<v>> ELSE <<(v % 128) + 128>> \o Uleb128(v \div 128)

\* deserializeUleb128AsU32: groups are added up until a byte without the
\* high bit; nothing looks at whether the last group is zero.
RECURSIVE ReadUleb128(_, _, _)
ReadUleb128(b, acc, mul) ==
  IF b = <<>> THEN DecodeError("insufficient bytes")
  ELSE LET v == acc + (Head(b) % 128) * mul
       IN  IF Head(b) < 128 THEN Decoded(v, Tail(b))
           ELSE ReadUleb128(Tail(b), v, mul * 128)
\* serializeU16: little-endian, two bytes.
U16(v) == <<v % 256, v \div 256>>

\* Integers of 32 bits and more are digit sequences (base LimbBase, lowest
\* digit first, no leading zero digit).  The low n bits of a, n a multiple
\* of 16.
BigLow(a, n) == BigNorm(SubSeq(a, 1, IF Len(a) < n \div 16 THEN Len(a) ELSE n \div 16))

RECURSIVE serializeUInt_HighFirst(_, _)
RECURSIVE serializeUInt(_, _)
\* Variant: the high half of a wide integer is written first.
serializeUInt_HighFirst(v, n) ==
  IF n = 2 THEN U16(IF v = <<>> THEN 0 ELSE v[1])
  ELSE serializeUInt_HighFirst(BigShr(v, 4 * n), n \div 2)
         \o serializeUInt_HighFirst(BigLow(v, 4 * n), n \div 2)

\* serializeU32, serializeU64, serializeU128, serializeU256: the n bytes of
\* v, little-endian; the low half of the bits is written first, then the
\* high half, each in the same way.
serializeUInt(v, n) ==
  IF n = 2 THEN U16(IF v = <<>> THEN 0 ELSE v[1])
  ELSE serializeUInt(BigLow(v, 4 * n), n \div 2) \o serializeUInt(BigShr(v, 4 * n), n \div 2)

\* deserializeU32 .. deserializeU256: the integer of the first n bytes of b,
\* little-endian; the low half is read first, then the high half, and the
\* value is high * 2^(4n) + low.
RECURSIVE deserializeUInt(_, _)
deserializeUInt(b, n) ==
  IF n = 2 THEN BigNorm(<<b[1] + 256 * b[2]>>)
  ELSE BigNorm(BigAdd(BigShl(deserializeUInt(SubSeq(b, (n \div 2) + 1, n), n \div 2), 4 * n),
                      deserializeUInt(SubSeq(b, 1, n \div 2), n \div 2)))

WideTypes == {"u32", "u64", "u128", "u256"}

\* The number of bits of a fixed-width integer type.
Bits(t) ==
  CASE t = "u8" -> 8 [] t = "u16" -> 16 [] t = "u32" -> 32
    [] t = "u64" -> 64 [] t = "u128" -> 128 [] t = "u256" -> 256

\* The type of a value: the value without its content.
TypeOf(x) == [f \in DOMAIN x \ {"int", "bool", "bytes", "tag", "items"} |-> x[f]]

\* What the writer accepts: integers within their width, bytes within
\* 0..255, fixed bytes of their length, at most one item in an optional, a
\* tag that names a variant, items of the declared types.
RECURSIVE InRange(_)
InRange(x) ==
  CASE x.t \in {"u8", "u16"} -> x.int \in 0..(2^Bits(x.t) - 1)
    [] x.t \in WideTypes -> x.int = BigNorm(x.int) /\ BigBitLen(x.int) <= Bits(x.t)
    [] x.t = "bool" -> TRUE
    [] x.t = "uleb128" -> x.int >= 0
    [] x.t = "bytes" -> \A k \in 1..Len(x.bytes) : x.bytes[k] \in 0..255
    [] x.t = "fixed" -> Len(x.bytes) = x.n /\ \A k \in 1..Len(x.bytes) : x.bytes[k] \in 0..255
    [] x.t = "vector" -> \A k \in 1..Len(x.items) : TypeOf(x.items[k]) = x.of /\ InRange(x.items[k])
    [] x.t = "option" ->
         /\ Len(x.items) <= 1
         /\ \A k \in 1..Len(x.items) : TypeOf(x.items[k]) = x.of /\ InRange(x.items[k])
    [] x.t = "enum" ->
         /\ x.tag \in 0..(Len(x.variants) - 1)
         /\ TypeOf(x.items[1]) = x.variants[x.tag + 1]
         /\ InRange(x.items[1])
    [] x.t = "struct" ->
         /\ Len(x.items) = Len(x.fields)
         /\ \A k \in 1..Len(x.items) : TypeOf(x.items[k]) = x.fields[k] /\ InRange(x.items[k])

RECURSIVE Ser(_)
RECURSIVE SerAll(_)
\* The encodings of the items of q, one after the other.
SerAll(q) == IF q = <<>> THEN <<>> ELSE Ser(Head(q)) \o SerAll(Tail(q))

\* serialize: the bytes of a value.
Ser(x) ==
  CASE x.t = "u8" -> <<x.int>>
    [] x.t = "u16" -> U16(x.int)
    [] x.t \in WideTypes -> serializeUInt(x.int, Bits(x.t) \div 8)
    [] x.t = "bool" -> <<IF x.bool THEN 1 ELSE 0>>
    [] x.t = "uleb128" -> Uleb128(x.int)
    [] x.t = "bytes" -> Uleb128(Len(x.bytes)) \o x.bytes
    [] x.t = "fixed" -> x.bytes
    [] x.t = "vector" -> Uleb128(Len(x.items)) \o SerAll(x.items)
    [] x.t = "option" -> IF x.items = <<>> THEN <<0>> ELSE <<1>> \o Ser(x.items[1])
    [] x.t = "enum" -> Uleb128(x.tag) \o Ser(x.items[1])
    [] x.t = "struct" -> SerAll(x.items)

RECURSIVE De(_, _)
RECURSIVE DeAll(_, _)
\* One value of each of the types, read one after the other.
DeAll(types, b) ==
  IF types = <<>> THEN Decoded(<<>>, b)
  ELSE LET first == De(Head(types), b)
       IN  IF ~first.ok THEN first
           ELSE LET others == DeAll(Tail(types), first.rest)
                IN  IF ~others.ok THEN others
                    ELSE Decoded(<<first.value>> \o others.value, others.rest)

\* deserialize: a value of type T read from the front of b, and what is left.
De(T, b) ==
  CASE T.t = "u8" ->
         IF Len(b) < 1 THEN DecodeError("insufficient bytes")
         ELSE Decoded(T @@ [int |-> b[1]], Tail(b))
    [] T.t = "u16" ->
         IF Len(b) < 2 THEN DecodeError("insufficient bytes")
         ELSE Decoded(T @@ [int |-> b[1] + 256 * b[2]], SubSeq(b, 3, Len(b)))
    [] T.t \in WideTypes ->
         LET n == Bits(T.t) \div 8
         IN  IF Len(b) < n THEN DecodeError("insufficient bytes")
             ELSE Decoded(T @@ [int |-> deserializeUInt(b, n)],
                          SubSeq(b, n + 1, Len(b)))
    [] T.t = "bool" ->
         IF Len(b) < 1 THEN DecodeError("insufficient bytes")
         ELSE IF b[1] > 1 THEN DecodeError("invalid boolean")
         ELSE Decoded(T @@ [bool |-> b[1] = 1], Tail(b))
    [] T.t = "uleb128" ->
         LET n == ReadUleb128(b, 0, 1)
         IN  IF ~n.ok THEN n ELSE Decoded(T @@ [int |-> n.value], n.rest)
    [] T.t = "bytes" ->
         LET n == ReadUleb128(b, 0, 1)
         IN  IF ~n.ok THEN n
             ELSE IF Len(n.rest) < n.value THEN DecodeError("insufficient bytes")
             ELSE Decoded(T @@ [bytes |-> SubSeq(n.rest, 1, n.value)],
                          SubSeq(n.rest, n.value + 1, Len(n.rest)))
    [] T.t = "fixed" ->
         IF Len(b) < T.n THEN DecodeError("insufficient bytes")
         ELSE Decoded(T @@ [bytes |-> SubSeq(b, 1, T.n)], SubSeq(b, T.n + 1, Len(b)))
    [] T.t = "vector" ->
         LET n == ReadUleb128(b, 0, 1)
         IN  IF ~n.ok THEN n
             ELSE LET items == DeAll([k \in 1..n.value |-> T.of], n.rest)
                  IN  IF ~items.ok THEN items
                      ELSE Decoded(T @@ [items |-> items.value], items.rest)
    [] T.t = "option" ->
         IF Len(b) < 1 THEN DecodeError("insufficient bytes")
         ELSE IF b[1] > 1 THEN DecodeError("invalid boolean")
         ELSE IF b[1] = 0 THEN Decoded(T @@ [items |-> <<>>], Tail(b))
         ELSE LET item == De(T.of, Tail(b))
              IN  IF ~item.ok THEN item
                  ELSE Decoded(T @@ [items |-> <<item.value>>], item.rest)
    [] T.t = "enum" ->
         LET n == ReadUleb128(b, 0, 1)
         IN  IF ~n.ok THEN n
             ELSE IF n.value >= Len(T.variants) THEN DecodeError("invalid tag")
             ELSE LET item == De(T.variants[n.value + 1], n.rest)
                  IN  IF ~item.ok THEN item
                      ELSE Decoded(T @@ [tag |-> n.value, items |-> <<item.value>>],
                                   item.rest)
    [] T.t = "struct" ->
         LET items == DeAll(T.fields, b)
         IN  IF ~items.ok THEN items
             ELSE Decoded(T @@ [items |-> items.value], items.rest)

\* Values and their types.
U8Of(v) == [t |-> "u8", int |-> v]

U16Of(v) == [t |-> "u16", int |-> v]

\* An integer of the wide type t with the digits v.
WideOf(t, v) == [t |-> t, int |-> v]

\* 2^bits - 1
MaxOf(bits) == [k \in 1..(bits \div 16) |-> LimbBase - 1]

BoolOf(v) == [t |-> "bool", bool |-> v]

UlebOf(v) == [t |-> "uleb128", int |-> v]

BytesOf(v) == [t |-> "bytes", bytes |-> v]

FixedOf(v) == [t |-> "fixed", n |-> Len(v), bytes |-> v]

VectorOf(of, v) == [t |-> "vector", of |-> of, items |-> v]

OptionOf(of, v) == [t |-> "option", of |-> of, items |-> v]

EnumOf(variants, tag, v) == [t |-> "enum", variants |-> variants, tag |-> tag, items |-> <<v>>]

StructOf(v) == [t |-> "struct", fields |-> [k \in 1..Len(v) |-> TypeOf(v[k])], items |-> v]

\* An account address: 32 bytes, here all zero but the last.
AddressBytes(a) == FixedOf([k \in 1..32 |-> IF k = 32 THEN a ELSE 0])

\* new MoveString("claims"), new MoveString("Claim"): the UTF-8 bytes
\* behind their length.
MoveString_claims == BytesOf(<<99, 108, 97, 105, 109, 115>>)

MoveString_Claim == BytesOf(<<67, 108, 97, 105, 109>>)

\* class Claim extends Serializable: serialize() writes contractAddress,
\* moduleName, structName, sender, receiver and claimNumber, in this order.
ClaimStruct(contractAddress, sender, receiver, claimNumber) ==
  StructOf(<<AddressBytes(contractAddress), MoveString_claims, MoveString_Claim,
             AddressBytes(sender), AddressBytes(receiver), WideOf("u64", claimNumber)>>)

\* The payload of a raw transaction, a tagged union: a script (code, type
\* arguments, arguments), a module bundle, or an entry function (module
\* address and name, function name, type arguments, arguments).
PayloadVariants ==
  <<TypeOf(StructOf(<<BytesOf(<<>>), VectorOf([t |-> "bytes"], <<>>),
                      VectorOf([t |-> "bytes"], <<>>)>>)),
    TypeOf(StructOf(<<>>)),
    TypeOf(StructOf(<<AddressBytes(0), BytesOf(<<>>), BytesOf(<<>>),
                      VectorOf([t |-> "bytes"], <<>>), VectorOf([t |-> "bytes"], <<>>)>>))>>

\* 0x1::cedra_account::transfer(recipient, amount), the arguments as the
\* bytes of an address and of a 64-bit amount.
TransferPayload(recipient, amount) ==
  EnumOf(PayloadVariants, 2,
         StructOf(<<AddressBytes(1),
                    BytesOf(<<99, 101, 100, 114, 97, 95, 97, 99, 99, 111, 117, 110, 116>>),
                    BytesOf(<<116, 114, 97, 110, 115, 102, 101, 114>>),
                    VectorOf([t |-> "bytes"], <<>>),
                    VectorOf([t |-> "bytes"],
                             <<BytesOf(AddressBytes(recipient).bytes),
                               BytesOf(serializeUInt(amount, 8))>>)>>))

\* A raw transaction: sender, sequence number, payload, max gas amount, gas
\* unit price, expiration timestamp and chain id, in this order.
RawTransactionOf(sender, sequence_number, payload) ==
  StructOf(<<AddressBytes(sender), WideOf("u64", sequence_number), payload,
             WideOf("u64", BigOfInt(200000)), WideOf("u64", BigOfInt(100)),
             WideOf("u64", <<26000, 26735>>), U8Of(4)>>)

\* SimpleTransaction: the raw transaction, then the fee-payer address if
\* there is one.
SimpleTransactionOf(rawTransaction, feePayerAddress) ==
  StructOf(<<rawTransaction, OptionOf(TypeOf(AddressBytes(0)), feePayerAddress)>>)

\* AnyPublicKey and AnySignature: a scheme tag ahead of the key or signature
\* bytes (Ed25519, Secp256k1).
AnyVariants == <<[t |-> "bytes"], [t |-> "bytes"]>>

\* AccountAuthenticator, a tagged union: Ed25519 (public key, signature),
\* MultiEd25519 (public keys, signatures with bitmap), SingleKey (any public
\* key, any signature), MultiKey (public keys and number required,
\* signatures and bitmap).
AuthenticatorVariants ==
  <<TypeOf(StructOf(<<BytesOf(<<>>), BytesOf(<<>>)>>)),
    TypeOf(StructOf(<<BytesOf(<<>>), BytesOf(<<>>)>>)),
    TypeOf(StructOf(<<EnumOf(AnyVariants, 0, BytesOf(<<>>)),
                      EnumOf(AnyVariants, 0, BytesOf(<<>>))>>)),
    TypeOf(StructOf(<<VectorOf(TypeOf(EnumOf(AnyVariants, 0, BytesOf(<<>>))), <<>>),
                      U8Of(0),
                      VectorOf(TypeOf(EnumOf(AnyVariants, 0, BytesOf(<<>>))), <<>>),
                      BytesOf(<<>>)>>))>>

\* Key and signature bytes: n bytes counting up from k.
KeyBytes(n, k) == BytesOf([i \in 1..n |-> (k + i) % 256])

AuthenticatorEd25519(k) ==
  EnumOf(AuthenticatorVariants, 0, StructOf(<<KeyBytes(32, k), KeyBytes(64, k + 100)>>))

AuthenticatorSingleKey(scheme, k) ==
  EnumOf(AuthenticatorVariants, 2,
         StructOf(<<EnumOf(AnyVariants, scheme, KeyBytes(IF scheme = 0 THEN 32 ELSE 65, k)),
                    EnumOf(AnyVariants, scheme, KeyBytes(64, k + 100))>>))

AuthenticatorMultiKey(k) ==
  EnumOf(AuthenticatorVariants, 3,
         StructOf(<<VectorOf(TypeOf(EnumOf(AnyVariants, 0, BytesOf(<<>>))),
                             <<EnumOf(AnyVariants, 0, KeyBytes(32, k)),
                               EnumOf(AnyVariants, 1, KeyBytes(65, k + 1))>>),
                    U8Of(1),
                    VectorOf(TypeOf(EnumOf(AnyVariants, 0, BytesOf(<<>>))),
                             <<EnumOf(AnyVariants, 1, KeyBytes(64, k + 2))>>),
                    BytesOf(<<64, 0, 0, 0>>)>>))

\* The values serialized: every primitive with its boundary values (0 and
\* the maximum of every width, values whose bytes all differ), the empty
\* byte vector, the empty sequence, the absent optional, structs, tagged
\* unions, the Claim of the example, transactions with and without fee
\* payer and authenticators of three variants; and values the writer
\* refuses.
BcsValues ==
  {U8Of(0), U8Of(7), U8Of(255), U16Of(0), U16Of(258), U16Of(65535),
   WideOf("u32", <<>>), WideOf("u32", <<772, 258>>), WideOf("u32", MaxOf(32)),
   WideOf("u64", <<>>), WideOf("u64", <<1>>), WideOf("u64", <<0, 0, 1>>),
   WideOf("u64", <<1800, 1286, 772, 258>>), WideOf("u64", MaxOf(64)),
   WideOf("u128", <<>>), WideOf("u128", <<0, 0, 0, 0, 1>>),
   WideOf("u128", <<1, 2, 3, 4, 5, 6, 7, 2056>>), WideOf("u128", MaxOf(128)),
   WideOf("u256", <<>>), WideOf("u256", <<0, 0, 0, 0, 0, 0, 0, 0, 1>>),
   WideOf("u256", [k \in 1..16 |-> 257 * k]), WideOf("u256", MaxOf(256)),
   BoolOf(TRUE), BoolOf(FALSE),
   UlebOf(0), UlebOf(1), UlebOf(127), UlebOf(128), UlebOf(16383), UlebOf(16384),
   UlebOf(2097151),
   BytesOf(<<>>), BytesOf(<<0>>), BytesOf(<<255, 1>>), BytesOf([k \in 1..130 |-> k]),
   FixedOf(<<>>), AddressBytes(9),
   VectorOf([t |-> "u8"], <<>>), VectorOf([t |-> "u8"], <<U8Of(1), U8Of(0)>>),
   VectorOf([t |-> "bytes"], <<BytesOf(<<>>), BytesOf(<<5>>)>>),
   VectorOf([t |-> "u16"], [k \in 1..5 |-> U16Of(k * 13000)]),
   VectorOf([t |-> "u64"], <<WideOf("u64", MaxOf(64)), WideOf("u64", <<>>)>>),
   OptionOf([t |-> "u16"], <<>>), OptionOf([t |-> "u16"], <<U16Of(65535)>>),
   OptionOf([t |-> "u256"], <<>>), OptionOf([t |-> "u256"], <<WideOf("u256", MaxOf(256))>>),
   OptionOf(TypeOf(OptionOf([t |-> "u8"], <<>>)), <<OptionOf([t |-> "u8"], <<>>)>>),
   StructOf(<<>>), StructOf(<<U8Of(0), OptionOf([t |-> "bool"], <<>>), BytesOf(<<>>)>>),
   StructOf(<<U8Of(255), U16Of(65535), WideOf("u32", MaxOf(32)), WideOf("u64", MaxOf(64)),
              WideOf("u128", MaxOf(128)), WideOf("u256", MaxOf(256)), BytesOf(<<>>),
              VectorOf([t |-> "u8"], <<>>), OptionOf([t |-> "u64"], <<>>)>>),
   ClaimStruct(1, 1, 2, <<>>), ClaimStruct(1, 1, 2, MaxOf(64)),
   TransferPayload(2, BigOfInt(100)),
   SimpleTransactionOf(RawTransactionOf(1, <<>>, TransferPayload(2, BigOfInt(100))), <<>>),
   SimpleTransactionOf(RawTransactionOf(1, MaxOf(64), TransferPayload(2, MaxOf(64))),
                       <<AddressBytes(0)>>),
   SimpleTransactionOf(RawTransactionOf(1, <<1>>, TransferPayload(2, <<0, 0, 1>>)),
                       <<AddressBytes(7)>>),
   AuthenticatorEd25519(1), AuthenticatorEd25519(200),
   AuthenticatorSingleKey(0, 3), AuthenticatorSingleKey(1, 5), AuthenticatorMultiKey(9),
   U8Of(256), U16Of(65536), WideOf("u32", <<0, 0, 1>>), WideOf("u64", <<0, 0, 0, 0, 1>>),
   WideOf("u256", MaxOf(256) \o <<1>>), FixedOf(<<0, 256>>),
   StructOf(<<U8Of(1), WideOf("u128", MaxOf(128) \o <<7>>)>>)}

\* Byte strings handed to the ULEB128 reader: everything up to MaxRawLen
\* bytes over a few byte values, with and without the continuation bit.
RawEncodings ==
  UNION {[1..n -> {0, 1, 127, 128, 129, 255}] : n \in 1..MaxRawLen}

\* value.bcsToBytes()
BcsSerialize ==
  /\ bcs.pc = "value"
  /\ bcs' = IF InRange(bcs.value)
            THEN [bcs EXCEPT !.pc = "bytes", !.bytes = Ser(bcs.value)]
            ELSE [bcs EXCEPT !.pc = "threw"]
  /\ UNCHANGED notBcs

\* T.deserialize(new Deserializer(bytes))
BcsDeserialize ==
  /\ bcs.pc = "bytes"
  /\ bcs' = [bcs EXCEPT !.pc = "read", !.result = De(TypeOf(bcs.value), bcs.bytes)]
  /\ UNCHANGED notBcs

\* new Deserializer(bytes).deserializeUleb128AsU32()
BcsReadUleb128 ==
  /\ bcs.pc = "raw"
  /\ bcs' = [bcs EXCEPT !.pc = "decoded", !.result = ReadUleb128(bcs.bytes, 0, 1)]
  /\ UNCHANGED notBcs

BcsInit ==
  /\ \/ \E x \in BcsValues :
          bcs = [pc |-> "value", value |-> x, bytes |-> <<>>, result |-> Undefined]
     \/ \E b \in RawEncodings :
          bcs = [pc |-> "raw", value |-> Undefined, bytes |-> b, result |-> Undefined]
  /\ CallsOff
  /\ blk = Off /\ worker = Off /\ memo = Off /\ pend = Off /\ idx = Off /\ acct = Off
  /\ escrow = Off

BcsNext ==
  \/ BcsSerialize
  \/ BcsDeserialize
  \/ BcsReadUleb128

BcsSpec == BcsInit /\ [][BcsNext]_vars

\* C22: what is read back from the bytes of a value is that value, with no
\* byte left over; this for every value the writer accepts, the boundary
\* values of every integer width, the empty byte vector, the empty sequence,
\* the absent optional, transactions and authenticators among them.
C22_RoundTrip ==
  /\ bcs.pc \in {"bytes", "read"} => InRange(bcs.value)
  /\ bcs.pc = "read" => bcs.result = Decoded(bcs.value, <<>>)

\* A transaction with the greatest 64-bit sequence number, an entry-function
\* payload and a fee payer, read back from its bytes.
C22_Witness ==
  /\ bcs.pc = "read"
  /\ bcs.value = SimpleTransactionOf(RawTransactionOf(1, MaxOf(64),
                                                      TransferPayload(2, MaxOf(64))),
                                     <<AddressBytes(0)>>)
  /\ SubSeq(bcs.bytes, 33, 40) = [k \in 1..8 |-> 255]
  /\ bcs.result.ok
  /\ bcs.result.value.items[2].items # <<>>
  /\ bcs.result.value.items[1].items[2].int = MaxOf(64)
  /\ bcs.result.value.items[1].items[3].tag = 2

\* The least number of seven-bit groups that hold v.
MinGroups(v) == IF v < 128 THEN 1 ELSE IF v < 16384 THEN 2 ELSE IF v < 2097152 THEN 3 ELSE 4

\* C23: the ULEB128 bytes of a value are as few as can be, zero being the
\* single byte 0; and the reader accepts a byte string only if it begins
\* with exactly the bytes the writer produces for the value read.
C23_Canonical ==
  /\ (bcs.pc \in {"bytes", "read"} /\ bcs.value.t = "uleb128") =>
       /\ Len(bcs.bytes) = MinGroups(bcs.value.int)
       /\ bcs.value.int = 0 => bcs.bytes = <<0>>
  /\ (bcs.pc = "decoded" /\ bcs.result.ok) =>
       bcs.bytes = Uleb128(bcs.result.value) \o bcs.result.rest

(***************************************************************************)
(* The claims Move module (src/unnamed/part_004): create_claim puts coins  *)
(* of the caller into an escrow under the caller's next claim number;      *)
(* claim pays an escrow out to the transaction's signer on a signature of  *)
(* the escrow's creator.  An abort undoes everything the transaction did.  *)
(* Coins are amounts; a signature is the pair of its signer and message.   *)
(***************************************************************************)
MaxClaims == 2

notEscrow == <<calls, blk, worker, memo, pend, idx, acct, bcs>>

EscrowAccounts == {"alice", "bob"}

Amounts == {0, 2}

\* Alice is funded, Bob is not.
InitialBalance(a) == IF a = "alice" THEN 3 ELSE 0

\* const E_PUBLIC_KEY_NOT_SIGNER: u64 = 1, ... const E_NO_CLAIM: u64 = 4
E_PUBLIC_KEY_NOT_SIGNER == "E_PUBLIC_KEY_NOT_SIGNER"

E_INVALID_SIGNATURE == "E_INVALID_SIGNATURE"

E_NOT_ENOUGH_COINS == "E_NOT_ENOUGH_COINS"

E_NO_CLAIM == "E_NO_CLAIM"

\* struct Claim has drop { sender, receiver, claim_number }
Claim(sender, receiver, claim_number) ==
  [sender |-> sender, receiver |-> receiver, claim_number |-> claim_number]

\* What signature_verify_strict_t checks the signature against: the struct
\* under its type.
SignedMessage_t(data) == [type_info |-> "claims::Claim", inner |-> data]

\* The Ed25519 public key of the key pair an account was created with.
Ed25519PublicKeyOf(a) == [kind |-> "ed25519", of |-> a]

\* ed25519::unvalidated_public_key_to_authentication_key
AuthenticationKey(public_key) == [kind |-> "authentication_key", of |-> public_key]

\* A signature made with the private key of account a.
Ed25519Sign(a, message) == [by |-> Ed25519PublicKeyOf(a), message |-> message]

\* ed25519::signature_verify_strict_t(&signature, &public_key, data)
signature_verify_strict_t(signature, public_key, data) ==
  signature.by = public_key /\ signature.message = SignedMessage_t(data)

ClaimNumbers == 0..MaxClaims

PublicKeyInputs == {Ed25519PublicKeyOf(a) : a \in EscrowAccounts}

\* Signatures over claims: by the creator for the receiver and number
\* meant, for another receiver, for another number, by somebody else, and
\* for an escrow of the other account.
SignatureInputs ==
  {Ed25519Sign("alice", SignedMessage_t(Claim("alice", "bob", 0))),
   Ed25519Sign("alice", SignedMessage_t(Claim("alice", "alice", 0))),
   Ed25519Sign("alice", SignedMessage_t(Claim("alice", "bob", 1))),
   Ed25519Sign("bob", SignedMessage_t(Claim("alice", "bob", 0))),
   Ed25519Sign("bob", SignedMessage_t(Claim("bob", "alice", 0))),
   Ed25519Sign("alice", SignedMessage_t(Claim("bob", "alice", 0)))}

\* The transaction aborts: nothing but the record of the call changes.
Aborted(e, call, code) == [e EXCEPT !.last = call @@ [result |-> code]]

Executed(e, call) == [e EXCEPT !.last = call @@ [result |-> "executed"]]

\* entry fun create_claim(caller: &signer, amount: u64)
create_claim(e, caller, amount) ==
  LET call == [op |-> "create_claim", caller |-> caller, amount |-> amount]
      e1 == IF ~e.claims[caller].exists
            THEN [e EXCEPT !.claims[caller] = [exists |-> TRUE, escrows |-> {}, next |-> 0]]
            ELSE e
      next == e1.claims[caller].next
  IN  IF ~(e1.balance[caller] >= amount)
      THEN Aborted(e, call, E_NOT_ENOUGH_COINS)
      ELSE Executed([e1 EXCEPT
             !.balance[caller] = @ - amount,
             !.claims[caller].escrows = @ \cup {[claim_number |-> next, coins |-> amount]},
             !.claims[caller].next = @ + 1,
             !.created = @ \cup {[sender |-> caller, claim_number |-> next, coins |-> amount]}],
             call)

\* smart_table::contains(&claims.escrows, claim_number)
contains(escrows, claim_number) == \E x \in escrows : x.claim_number = claim_number

\* The coins held under claim_number.
borrow(escrows, claim_number) == (CHOOSE x \in escrows : x.claim_number = claim_number).coins
\* Variant: the escrow is paid out and left in the table.
claim_KeepsEscrow(e, receiver, sender, claim_number, sender_public_key, signature) ==
  LET call == [op |-> "claim", receiver |-> receiver, sender |-> sender,
               claim_number |-> claim_number, public_key |-> sender_public_key,
               signature |-> signature]
  IN  IF ~e.claims[sender].exists THEN Aborted(e, call, E_NO_CLAIM)
      ELSE IF ~contains(e.claims[sender].escrows, claim_number)
      THEN Aborted(e, call, E_NO_CLAIM)
      ELSE IF e.authentication_key[sender] # AuthenticationKey(sender_public_key)
      THEN Aborted(e, call, E_PUBLIC_KEY_NOT_SIGNER)
      ELSE IF ~signature_verify_strict_t(signature, sender_public_key,
                                         Claim(sender, receiver, claim_number))
      THEN Aborted(e, call, E_INVALID_SIGNATURE)
      ELSE LET coins == borrow(e.claims[sender].escrows, claim_number)
           IN  Executed([e EXCEPT
                 !.balance[receiver] = @ + coins,
                 !.paid = @ \cup {[sender |-> sender, claim_number |-> claim_number,
                                    receiver |-> receiver, coins |-> coins]},
                 !.payouts = @ + 1],
                 call)

\* Variant: the signature is checked against a claim that names no receiver.
claim_AnyReceiver(e, receiver, sender, claim_number, sender_public_key, signature) ==
  LET call == [op |-> "claim", receiver |-> receiver, sender |-> sender,
               claim_number |-> claim_number, public_key |-> sender_public_key,
               signature |-> signature]
  IN  IF ~e.claims[sender].exists THEN Aborted(e, call, E_NO_CLAIM)
      ELSE IF ~contains(e.claims[sender].escrows, claim_number)
      THEN Aborted(e, call, E_NO_CLAIM)
      ELSE IF e.authentication_key[sender] # AuthenticationKey(sender_public_key)
      THEN Aborted(e, call, E_PUBLIC_KEY_NOT_SIGNER)
      ELSE IF ~ \E r \in EscrowAccounts :
                  signature_verify_strict_t(signature, sender_public_key,
                                            Claim(sender, r, claim_number))
      THEN Aborted(e, call, E_INVALID_SIGNATURE)
      ELSE LET coins == borrow(e.claims[sender].escrows, claim_number)
           IN  Executed([e EXCEPT
                 !.claims[sender].escrows = {x \in @ : x.claim_number # claim_number},
                 !.balance[receiver] = @ + coins,
                 !.paid = @ \cup {[sender |-> sender, claim_number |-> claim_number,
                                    receiver |-> receiver, coins |-> coins]},
                 !.payouts = @ + 1],
                 call)

\* entry fun claim(receiver: &signer, sender: address, claim_number: u64,
\*                 sender_public_key_bytes: vector<u8>, signature_bytes: vector<u8>)
claim(e, receiver, sender, claim_number, sender_public_key, signature) ==
  LET call == [op |-> "claim", receiver |-> receiver, sender |-> sender,
               claim_number |-> claim_number, public_key |-> sender_public_key,
               signature |-> signature]
  IN  IF ~e.claims[sender].exists THEN Aborted(e, call, E_NO_CLAIM)
      ELSE IF ~contains(e.claims[sender].escrows, claim_number)
      THEN Aborted(e, call, E_NO_CLAIM)
      ELSE IF e.authentication_key[sender] # AuthenticationKey(sender_public_key)
      THEN Aborted(e, call, E_PUBLIC_KEY_NOT_SIGNER)
      ELSE IF ~signature_verify_strict_t(signature, sender_public_key,
                                         Claim(sender, receiver, claim_number))
      THEN Aborted(e, call, E_INVALID_SIGNATURE)
      ELSE LET coins == borrow(e.claims[sender].escrows, claim_number)
           IN  Executed([e EXCEPT
                 !.claims[sender].escrows = {x \in @ : x.claim_number # claim_number},
                 !.balance[receiver] = @ + coins,
                 !.paid = @ \cup {[sender |-> sender, claim_number |-> claim_number,
                                    receiver |-> receiver, coins |-> coins]},
                 !.payouts = @ + 1],
                 call)

\* A create_claim transaction of caller; next is a u64 and is kept below
\* MaxClaims here.
CreateClaim(caller, amount) ==
  /\ escrow.pc = "on"
  /\ ~escrow.claims[caller].exists \/ escrow.claims[caller].next < MaxClaims
  /\ escrow' = create_claim(escrow, caller, amount)
  /\ UNCHANGED notEscrow

\* A claim transaction signed by receiver.
ClaimCoins(receiver, sender, claim_number, public_key, signature) ==
  /\ escrow.pc = "on"
  /\ escrow' = claim(escrow, receiver, sender, claim_number, public_key, signature)
  /\ UNCHANGED notEscrow

EscrowInit ==
  /\ LET b == [a \in EscrowAccounts |-> InitialBalance(a)] IN
       escrow = [pc |-> "on", balance |-> b,
                 claims |-> [a \in EscrowAccounts |->
                               [exists |-> FALSE, escrows |-> {}, next |-> 0]],
                 authentication_key |->
                   [a \in EscrowAccounts |-> AuthenticationKey(Ed25519PublicKeyOf(a))],
                 last |-> [op |-> "none"],
                 \* observation of the run, never read by the code
                 initial |-> b, created |-> {}, paid |-> {}, payouts |-> 0]
  /\ CallsOff
  /\ blk = Off /\ worker = Off /\ memo = Off /\ pend = Off /\ idx = Off /\ acct = Off
  /\ bcs = Off

EscrowNext ==
  \/ \E a \in EscrowAccounts, amount \in Amounts : CreateClaim(a, amount)
  \/ \E r \in EscrowAccounts, s \in EscrowAccounts, n \in ClaimNumbers,
        k \in PublicKeyInputs, g \in SignatureInputs : ClaimCoins(r, s, n, k, g)

EscrowSpec == EscrowInit /\ [][EscrowNext]_vars

\* The claim numbers of sender that hold coins, and those paid out.
Held(e, sender) == {x.claim_number : x \in e.claims[sender].escrows}

PaidOut(e, sender) == {p.claim_number : p \in {q \in e.paid : q.sender = sender}}

\* The coins withdrawn from sender for claim_number.
Withdrawn(e, sender, claim_number) ==
  (CHOOSE x \in e.created : x.sender = sender /\ x.claim_number = claim_number).coins

\* C29: the claim numbers of a sender are 0, 1, ... next - 1, each given out
\* once; each is either still held or paid out, never both, and paid out at
\* most once, with the coins withdrawn for it.  create_claim stores under
\* the present next and increments it; a claim that is executed removes the
\* entry and deposits exactly its coins to the receiver; a claim for a pair
\* paid out before aborts with E_NO_CLAIM and changes nothing.
C29_PaidOnce ==
  /\ [](escrow.pc = "on" =>
          /\ \A s \in EscrowAccounts :
               LET made == {x \in escrow.created : x.sender = s}
               IN  /\ {x.claim_number : x \in made} = 0..(escrow.claims[s].next - 1)
                   /\ Cardinality(made) = escrow.claims[s].next
                   /\ Held(escrow, s) \cap PaidOut(escrow, s) = {}
                   /\ Held(escrow, s) \cup PaidOut(escrow, s) = 0..(escrow.claims[s].next - 1)
                   /\ \A x \in escrow.claims[s].escrows :
                        x.coins = Withdrawn(escrow, s, x.claim_number)
          /\ \A p \in escrow.paid : p.coins = Withdrawn(escrow, p.sender, p.claim_number)
          /\ Cardinality(escrow.paid) = escrow.payouts
          /\ Cardinality({<<p.sender, p.claim_number>> : p \in escrow.paid}) = escrow.payouts)
  /\ [][escrow.pc = "on" =>
          LET l == escrow'.last IN
            /\ (l.op = "claim" /\ l.claim_number \in PaidOut(escrow, l.sender)) =>
                 /\ l.result = E_NO_CLAIM
                 /\ escrow'.balance = escrow.balance
                 /\ escrow'.claims = escrow.claims
            /\ (l.op = "claim" /\ l.result = "executed") =>
                 /\ l.claim_number \in Held(escrow, l.sender)
                 /\ l.claim_number \notin Held(escrow', l.sender)
                 /\ escrow'.balance =
                      [escrow.balance EXCEPT
                         ![l.receiver] = @ + Withdrawn(escrow, l.sender, l.claim_number)]
                 /\ escrow'.claims[l.sender].next = escrow.claims[l.sender].next
            /\ (l.op = "create_claim" /\ l.result = "executed") =>
                 /\ escrow'.claims[l.caller].escrows =
                      escrow.claims[l.caller].escrows
                        \cup {[claim_number |-> escrow.claims[l.caller].next,
                               coins |-> l.amount]}
                 /\ escrow.claims[l.caller].next \notin Held(escrow, l.caller)
                 /\ escrow'.claims[l.caller].next = escrow.claims[l.caller].next + 1
                 /\ escrow'.balance = [escrow.balance EXCEPT ![l.caller] = @ - l.amount]]_vars

\* Alice's claim 0 was paid to Bob, her claim 1 is still held, and a second
\* claim for number 0 has just aborted with E_NO_CLAIM.
C29_Witness ==
  /\ escrow.pc = "on"
  /\ escrow.paid = {[sender |-> "alice", claim_number |-> 0, receiver |-> "bob", coins |-> 2]}
  /\ Held(escrow, "alice") = {1}
  /\ escrow.claims["alice"].next = 2
  /\ escrow.balance["bob"] = 2
  /\ escrow.last.op = "claim"
  /\ escrow.last.sender = "alice" /\ escrow.last.claim_number = 0
  /\ escrow.last.signature = Ed25519Sign("alice", SignedMessage_t(Claim("alice", "bob", 0)))
  /\ escrow.last.result = E_NO_CLAIM

\* C30: a claim is executed exactly when the escrow exists, the public key
\* given derives the sender's authentication key and the signature verifies
\* under that key over Claim{sender, receiver = the transaction's signer,
\* claim_number}; it then carries the signature of the escrow's creator.
\* Otherwise it aborts, and an aborted claim or create_claim leaves balances
\* and escrows as they were; create_claim aborts with E_NOT_ENOUGH_COINS
\* exactly when the caller's balance is below the amount.
C30_Authorised ==
  [][escrow.pc = "on" =>
       LET l == escrow'.last IN
         /\ l.op = "claim" =>
              LET there == /\ escrow.claims[l.sender].exists
                           /\ l.claim_number \in Held(escrow, l.sender)
                  keyOk == escrow.authentication_key[l.sender] = AuthenticationKey(l.public_key)
                  sigOk == /\ l.signature.by = l.public_key
                           /\ l.signature.message =
                                SignedMessage_t(Claim(l.sender, l.receiver, l.claim_number))
              IN  /\ l.result = "executed" <=> (there /\ keyOk /\ sigOk)
                  /\ l.result = "executed" => l.signature.by = Ed25519PublicKeyOf(l.sender)
                  /\ ~there => l.result = E_NO_CLAIM
                  /\ (there /\ ~keyOk) => l.result = E_PUBLIC_KEY_NOT_SIGNER
                  /\ (there /\ keyOk /\ ~sigOk) => l.result = E_INVALID_SIGNATURE
         /\ l.op = "create_claim" =>
              /\ l.result = E_NOT_ENOUGH_COINS <=> escrow.balance[l.caller] < l.amount
              /\ l.result = "executed" <=> escrow.balance[l.caller] >= l.amount
         /\ l.result # "executed" =>
              /\ escrow'.balance = escrow.balance
              /\ escrow'.claims = escrow.claims
              /\ escrow'.paid = escrow.paid /\ escrow'.created = escrow.created]_vars

\* Alice tried to take her own escrow back with the signature she made for
\* Bob: the claim aborted with E_INVALID_SIGNATURE and the escrow is held.
C30_Witness ==
  /\ escrow.pc = "on"
  /\ escrow.last.op = "claim"
  /\ escrow.last.receiver = "alice" /\ escrow.last.sender = "alice"
  /\ escrow.last.claim_number = 0
  /\ escrow.last.public_key = Ed25519PublicKeyOf("alice")
  /\ escrow.last.signature = Ed25519Sign("alice", SignedMessage_t(Claim("alice", "bob", 0)))
  /\ escrow.last.result = E_INVALID_SIGNATURE
  /\ Held(escrow, "alice") = {0}
  /\ escrow.balance = [a \in EscrowAccounts |-> IF a = "alice" THEN 1 ELSE 0]

====
